---- MODULE Spec2Model ----
(***************************************************************************)
(* Model of RTGL1::VertexCollector (Source/VertexCollector.cpp): the       *)
(* vertex / index / transform collector that packs submitted primitives    *)
(* into staging buffers, keeps four running counters, and pushes one       *)
(* acceleration-structure geometry per accepted primitive into the filter  *)
(* bucket of the primitive's filter key.                                   *)
(*                                                                         *)
(* Counters are uint32_t in the source; every sum the source computes in   *)
(* uint32_t is reduced modulo the word size here (operator U32).  TLC's    *)
(* integers are 32-bit signed, so 2^32 itself cannot be written: the       *)
(* unsigned word of the model is 24 bits wide (UINT32_MAX = 2^24 - 1).     *)
(* Every limit of the program (at most 3 * 2^20) is kept exact and lies    *)
(* below the word size as in the source, and 2^24 = 2^32 = 1 (mod 3), so   *)
(* AlignUpBy3 behaves at the wrap-around as it does for 32 bits.           *)
(***************************************************************************)
EXTENDS Integers, Sequences, FiniteSets, TLC

(***************************************************************************)
(* Program constants (Generated/ShaderCommonC.h, <cstdint>).               *)
(***************************************************************************)
MAX_STATIC_VERTEX_COUNT == 1048576
MAX_DYNAMIC_VERTEX_COUNT == 2097152
MAX_INDEXED_PRIMITIVE_COUNT == 1048576
MAX_BOTTOM_LEVEL_GEOMETRIES_COUNT == 4096
\* the largest value of the unsigned word (2^24 - 1, standing for 2^32 - 1)
UINT32_MAX == 16777215
\* sizeof( ShVertex ): 3 * float[4] + float[2] + 2 * uint32_t
SizeofShVertex == 64
\* offsetof( ShVertex, position ): the first member
OffsetofPosition == 0
\* sizeof( uint32_t )
SizeofUint32 == 4
\* sizeof( VkTransformMatrixKHR ): float[3][4]
SizeofTransform == 48

(***************************************************************************)
(* Bounds of the model.                                                    *)
(***************************************************************************)
\* AddPrimitive calls made on the collector since its construction
MaxCalls == 3
\* capacity in the global array of a static / of a dynamic filter group
StaticGroupCapacity == 3
DynamicGroupCapacity == 4
\* AddPrimitive calls rejected by the registry check before the first
\* operation of SpecLate
RejectedBefore == 4095

\* uint32_t arithmetic
U32(x) == x % (UINT32_MAX + 1)

(***************************************************************************)
(* Filter keys.  A key is the set of its flag bits, one bit of each of the *)
(* three groups; "a & b" of the source is set intersection.                *)
(***************************************************************************)
CF_STATIC_NON_MOVABLE == "CF_STATIC_NON_MOVABLE"
CF_STATIC_MOVABLE == "CF_STATIC_MOVABLE"
CF_DYNAMIC == "CF_DYNAMIC"
PT_OPAQUE == "PT_OPAQUE"
PT_ALPHA_TESTED == "PT_ALPHA_TESTED"
PV_WORLD == "PV_WORLD"
PV_FIRST_PERSON == "PV_FIRST_PERSON"
PV_FIRST_PERSON_VIEWER == "PV_FIRST_PERSON_VIEWER"
PV_SKY == "PV_SKY"

MASK_CHANGE_FREQUENCY_GROUP == {CF_STATIC_NON_MOVABLE, CF_STATIC_MOVABLE, CF_DYNAMIC}
MASK_PASS_THROUGH_GROUP == {PT_OPAQUE, PT_ALPHA_TESTED}
MASK_PRIMARY_VISIBILITY_GROUP == {PV_WORLD, PV_FIRST_PERSON, PV_FIRST_PERSON_VIEWER, PV_SKY}

\* VertexCollectorFilterTypeFlags_IterateOverFlags: every combination of one
\* bit per group
IterateOverFlags ==
    { {cf, pt, pv} : cf \in MASK_CHANGE_FREQUENCY_GROUP,
                     pt \in MASK_PASS_THROUGH_GROUP,
                     pv \in MASK_PRIMARY_VISIBILITY_GROUP }

\* VertexCollectorFilterTypeFlags_GetAmountInGlobalArray
GetAmountInGlobalArray(flags) ==
    IF CF_DYNAMIC \in flags THEN DynamicGroupCapacity ELSE StaticGroupCapacity

\* the flag sets a collector is constructed with in this model
FiltersFlagsChoices ==
    { {CF_DYNAMIC, PT_OPAQUE, PT_ALPHA_TESTED, PV_WORLD},
      {CF_STATIC_NON_MOVABLE, CF_DYNAMIC, PT_OPAQUE, PV_WORLD} }

(***************************************************************************)
(* VertexCollectorFilter: three parallel sequences.                        *)
(***************************************************************************)
EmptyFilter == [geometries |-> <<>>, rangeInfos |-> <<>>, primitiveCounts |-> <<>>]

Filter_GetGeometryCount(f) == Len(f.geometries)

Filter_PushGeometry(f, geom) == [f EXCEPT !.geometries = Append(@, geom)]

Filter_PushRangeInfo(f, rangeInfo) == [f EXCEPT !.rangeInfos = Append(@, rangeInfo)]

Filter_PushPrimitiveCount(f, primCount) ==
    [f EXCEPT !.primitiveCounts = Append(@, primCount)]

(***************************************************************************)
(* State of one VertexCollector.                                           *)
(***************************************************************************)
VARIABLES
    filtersFlags,       \* flags given at construction
    filters,            \* map filter key -> VertexCollectorFilter
    curVertexCount,
    curIndexCount,
    curPrimitiveCount,
    curTransformCount,
    staging,            \* per mapped staging buffer, the memcpy's made into it
    geomInfoMgr,        \* the calls of GeomInfoManager::WriteGeomInfo made
    calls,              \* operations other than Reset since construction
    last,               \* arguments, locals and result of the last operation
    cycle,              \* history since construction or the last Reset
    rollback,           \* the counters of a collector that undoes rejected calls
    view,               \* the collector constructed as a shared view of this one
    textureOverrides    \* the TextureOverrides object constructed last

vars ==
    <<filtersFlags, filters, curVertexCount, curIndexCount, curPrimitiveCount,
      curTransformCount, staging, geomInfoMgr, calls, last, cycle, rollback, view,
      textureOverrides>>

(***************************************************************************)
(* Helpers of AddPrimitive.                                                *)
(***************************************************************************)
\* faulty variant: the division and multiplication by 3 are left out
AlignUpBy3_NotRounded(x) == U32(x + 2)

AlignUpBy3(x) == (U32(x + 2) \div 3) * 3

\* faulty variant: a bucket for every group combination that shares a bit with
\* the flags
InitFilters_AnyBit(flags) ==
    [f \in {g \in IterateOverFlags : (flags \cap g) # {}} |-> EmptyFilter]

\* AddFilter / InitFilters: a bucket for every group combination contained
\* in the flags
InitFilters(flags) ==
    [f \in {g \in IterateOverFlags : (flags \cap g) = g} |-> EmptyFilter]

GetGeometryCount(type) == Filter_GetGeometryCount(filters[type])

\* faulty variant: only the buckets of dynamic geometry are counted
GetAllGeometryCount_DynamicOnly ==
    LET RECURSIVE Sum(_)
        Sum(S) == IF S = {} THEN 0
                  ELSE LET k == CHOOSE k \in S : TRUE
                       IN U32(Filter_GetGeometryCount(filters[k]) + Sum(S \ {k}))
    IN Sum({k \in DOMAIN filters : CF_DYNAMIC \in k})

GetAllGeometryCount ==
    LET RECURSIVE Sum(_)
        Sum(S) == IF S = {} THEN 0
                  ELSE LET k == CHOOSE k \in S : TRUE
                       IN U32(Filter_GetGeometryCount(filters[k]) + Sum(S \ {k}))
    IN Sum(DOMAIN filters)

\* faulty variant: the geometry is put in front of those of the bucket
PushGeometry_Front(fs, type, geom) ==
    [fs EXCEPT ![type].geometries = <<geom>> \o @]

PushGeometry(fs, type, geom) == [fs EXCEPT ![type] = Filter_PushGeometry(@, geom)]

\* faulty variant: the build range is not pushed
PushRangeInfo_Skipped(fs, type, rangeInfo) == fs

PushRangeInfo(fs, type, rangeInfo) ==
    [fs EXCEPT ![type] = Filter_PushRangeInfo(@, rangeInfo)]

PushPrimitiveCount(fs, type, primCount) ==
    [fs EXCEPT ![type] = Filter_PushPrimitiveCount(@, primCount)]

\* faulty variant: the group is allowed to reach its capacity
GroupLimitReached_Exceeds(geometryCount, amountInGlobalArray) ==
    U32(geometryCount + 1) > amountInGlobalArray

\* faulty variant: the count before the push is compared
GroupLimitReached_CountOnly(geometryCount, amountInGlobalArray) ==
    geometryCount >= amountInGlobalArray

\* line 195: the group of geomFlags is full
GroupLimitReached(geometryCount, amountInGlobalArray) ==
    U32(geometryCount + 1) >= amountInGlobalArray

CollectStatic(geomFlags) ==
    (geomFlags \cap {CF_STATIC_NON_MOVABLE, CF_STATIC_MOVABLE}) # {}

MaxVertexCount(geomFlags) ==
    IF CollectStatic(geomFlags) THEN MAX_STATIC_VERTEX_COUNT
    ELSE MAX_DYNAMIC_VERTEX_COUNT

\* faulty variant: the index pointer is not looked at
UseIndices_CountOnly(indexCount, hasIndices) == indexCount # 0

UseIndices(indexCount, hasIndices) == indexCount # 0 /\ hasIndices

\* faulty variant: the triangles are always counted from the vertices
TriangleCount_FromVertices(useIndices, vertexCount, indexCount) == vertexCount \div 3

TriangleCount(useIndices, vertexCount, indexCount) ==
    IF useIndices THEN indexCount \div 3 ELSE vertexCount \div 3

\* faulty variant: a count equal to the maximum passes
VertexLimitReached_Exceeds(vertexCountNow, maxVertexCount) ==
    vertexCountNow > maxVertexCount

\* line 229
VertexLimitReached(vertexCountNow, maxVertexCount) == vertexCountNow >= maxVertexCount

\* line 242
IndexLimitReached(indexCountNow) == indexCountNow >= MAX_INDEXED_PRIMITIVE_COUNT * 3

\* faulty variant: the registry's count itself is compared with the maximum
GeomInfoLimitReached_CountOnly(geomInfoCount) ==
    geomInfoCount >= MAX_BOTTOM_LEVEL_GEOMETRIES_COUNT

\* line 248
GeomInfoLimitReached(geomInfoCount) ==
    U32(geomInfoCount + 1) >= MAX_BOTTOM_LEVEL_GEOMETRIES_COUNT

\* a device address: a buffer and a byte offset from its start
Address(buffer, offset) == [buffer |-> buffer, offset |-> offset]
NullAddress == [buffer |-> "null", offset |-> 0]

\* faulty variant: every geometry is flagged opaque
MakeGeometry_AlwaysOpaque(geomFlags, vertIndex, indIndex, transformIndex, useIndices, vertexCount) ==
    [ flags         |-> "OPAQUE",
      vertexData    |-> Address("vertBuffer",
                                vertIndex * SizeofShVertex + OffsetofPosition),
      vertexStride  |-> SizeofShVertex,
      maxVertex     |-> vertexCount,
      indexType     |-> IF useIndices THEN "UINT32" ELSE "NONE",
      indexData     |-> IF useIndices
                        THEN Address("indexBuffer", indIndex * SizeofUint32)
                        ELSE NullAddress,
      transformData |-> Address("transformsBuffer", transformIndex * SizeofTransform) ]

\* VkAccelerationStructureGeometryKHR built at lines 277-312
MakeGeometry(geomFlags, vertIndex, indIndex, transformIndex, useIndices, vertexCount) ==
    [ flags         |-> IF PT_OPAQUE \in geomFlags THEN "OPAQUE"
                        ELSE "NO_DUPLICATE_ANY_HIT_INVOCATION",
      vertexData    |-> Address("vertBuffer",
                                vertIndex * SizeofShVertex + OffsetofPosition),
      vertexStride  |-> SizeofShVertex,
      maxVertex     |-> vertexCount,
      indexType     |-> IF useIndices THEN "UINT32" ELSE "NONE",
      indexData     |-> IF useIndices
                        THEN Address("indexBuffer", indIndex * SizeofUint32)
                        ELSE NullAddress,
      transformData |-> Address("transformsBuffer", transformIndex * SizeofTransform) ]

\* VkAccelerationStructureBuildRangeInfoKHR built at lines 319-324
MakeRangeInfo(triangleCount) ==
    [ primitiveCount |-> triangleCount, primitiveOffset |-> 0,
      firstVertex |-> 0, transformOffset |-> 0 ]

\* the fields of ShGeometryInstance that depend on the collector (lines 352-357)
MakeGeomInfo(vertIndex, indIndex, useIndices, vertexCount, indexCount) ==
    [ baseVertexIndex |-> vertIndex,
      baseIndexIndex  |-> IF useIndices THEN indIndex ELSE UINT32_MAX,
      vertexCount     |-> vertexCount,
      indexCount      |-> IF useIndices THEN indexCount ELSE UINT32_MAX ]

\* one memcpy of elements [offset, offset + count) into a mapped staging buffer
Memcpy(offset, count) == [written |-> TRUE, offset |-> offset, count |-> count]

NoMemcpy == [written |-> FALSE, offset |-> 0, count |-> 0]

\* the arguments of one call of GeomInfoManager::WriteGeomInfo
WriteGeomInfo(frameIndex, localIndex, geomFlags, geomInfo) ==
    [ called |-> TRUE, frameIndex |-> frameIndex, localIndex |-> localIndex,
      flags |-> geomFlags, geomInfo |-> geomInfo ]

NoWriteGeomInfo ==
    [ called |-> FALSE, frameIndex |-> 0, localIndex |-> 0, flags |-> {},
      geomInfo |-> MakeGeomInfo(0, 0, FALSE, 0, 0) ]

(***************************************************************************)
(* Inputs.                                                                 *)
(***************************************************************************)
\* <<info.vertexCount, info.indexCount, info.pIndices != nullptr>> of the
\* primitives submitted with filter key geomFlags: small ones, with and without
\* indices and with counts that are and are not multiples of 3; one that ends
\* one element below both limits and one that ends at each limit; counts that
\* wrap the unsigned word
Primitives(geomFlags) ==
    { <<3, 0, TRUE>>, <<4, 3, FALSE>>, <<4, 4, TRUE>>, <<6, 3, TRUE>>,
      <<MaxVertexCount(geomFlags) - 1, MAX_INDEXED_PRIMITIVE_COUNT * 3 - 1, TRUE>>,
      <<MaxVertexCount(geomFlags), 0, FALSE>>,
      <<3, MAX_INDEXED_PRIMITIVE_COUNT * 3, TRUE>>,
      <<UINT32_MAX, 0, FALSE>>,
      <<3, UINT32_MAX, TRUE>> }

\* the primitives of the specifications that have more operations than Spec:
\* a small one without and one with indices, and one that reaches the limit
SharedPrimitives(geomFlags) ==
    { <<3, 0, TRUE>>, <<4, 4, TRUE>>, <<MaxVertexCount(geomFlags), 0, FALSE>> }

\* what geomInfoMgr->GetCount( frameIndex ) returns
GeomInfoCounts ==
    {MAX_BOTTOM_LEVEL_GEOMETRIES_COUNT - 2, MAX_BOTTOM_LEVEL_GEOMETRIES_COUNT - 1}

\* the frame indices AddPrimitive is called with
FrameIndices == {0, 1}

(***************************************************************************)
(* Construction.                                                           *)
(***************************************************************************)
\* no TextureOverrides object has been constructed
NoTextureOverrides ==
    [ constructed |-> FALSE, given |-> <<>>, loaded |-> <<>>, results |-> <<>> ]

\* the counters and the geometry count of every bucket of a collector that has
\* just been constructed
NewCollector ==
    [ vertexCount |-> 0, indexCount |-> 0, transformCount |-> 0,
      geometryCount |-> [k \in IterateOverFlags |-> 0] ]

NoCall ==
    [ op |-> "construct", fresh |-> NewCollector,
      flags |-> {}, result |-> FALSE, value |-> 0, cmds |-> <<>>, prev |-> "none",
      steps |-> <<>>, accepted |-> FALSE, rejectedBy |-> "none",
      assertion |-> "none",
      frameIndex |-> 0, geomFlags |-> {}, vertexCount |-> 0, indexCount |-> 0,
      hasIndices |-> FALSE, geomInfoCount |-> 0,
      vertIndex |-> 0, indIndex |-> 0, transformIndex |-> 0,
      useIndices |-> FALSE, triangleCount |-> 0, localIndex |-> 0,
      preVertexCount |-> 0, preIndexCount |-> 0, prePrimitiveCount |-> 0,
      preTransformCount |-> 0, preGeometryCount |-> 0,
      vertexWrite |-> NoMemcpy, indexWrite |-> NoMemcpy,
      transformWrite |-> NoMemcpy, geomInfoWrite |-> NoWriteGeomInfo,
      rollbackVertIndex |-> 0,
      rollbackIndIndex |-> 0, rollbackTransformIndex |-> 0 ]

NewCycle ==
    [ calls |-> 0, accepted |-> 0, rejectedBy |-> {}, keys |-> {},
      rejectedVertexMax |-> 0,
      sumVertexCount |-> 0, sumIndexCount |-> 0, sumTriangleCount |-> 0,
      vertexPadding |-> 0, indexPadding |-> 0,
      fresh |-> NewCollector,
      writtenVertexEnd |-> 0, writtenIndexEnd |-> 0, writtenTransformEnd |-> 0,
      localIndices |-> [k \in IterateOverFlags |-> <<>>],
      primitives |-> [k \in IterateOverFlags |-> <<>>] ]

NoRollback == [vertexCount |-> 0, indexCount |-> 0, transformCount |-> 0]

\* a buffer object: the collector that created it and the member that holds it
Allocated(collector, member) == <<collector, member>>

\* the collector of the state variables, as the object a shared view is
\* constructed from: its device buffers are created at lines 57-59, its staging
\* buffers by InitStagingBuffers
Source ==
    [ filtersFlags |-> filtersFlags,
      vertBuffer |-> Allocated("src", "vertBuffer"),
      indexBuffer |-> Allocated("src", "indexBuffer"),
      transformsBuffer |-> Allocated("src", "transformsBuffer"),
      stagingVertBuffer |-> Allocated("src", "stagingVertBuffer"),
      stagingIndexBuffer |-> Allocated("src", "stagingIndexBuffer"),
      stagingTransformsBuffer |-> Allocated("src", "stagingTransformsBuffer"),
      curVertexCount |-> curVertexCount, curIndexCount |-> curIndexCount,
      curPrimitiveCount |-> curPrimitiveCount,
      curTransformCount |-> curTransformCount,
      filters |-> filters, staging |-> staging ]

\* no shared view has been constructed
NoView ==
    [ exists |-> FALSE, op |-> "none", result |-> FALSE, cmds |-> <<>>,
      filtersFlags |-> {},
      vertBuffer |-> <<>>, indexBuffer |-> <<>>, transformsBuffer |-> <<>>,
      stagingVertBuffer |-> <<>>, stagingIndexBuffer |-> <<>>,
      stagingTransformsBuffer |-> <<>>,
      curVertexCount |-> 0, curIndexCount |-> 0, curPrimitiveCount |-> 0,
      curTransformCount |-> 0,
      filters |-> InitFilters({}),
      staging |-> [vertex |-> 0, index |-> 0, transform |-> 0] ]

\* InitStagingBuffers of collector self: three staging buffers of its own,
\* mapped, with nothing copied into them
InitStagingBuffers(c, self) ==
    [ c EXCEPT
        !.stagingVertBuffer = Allocated(self, "stagingVertBuffer"),
        !.stagingIndexBuffer = Allocated(self, "stagingIndexBuffer"),
        !.stagingTransformsBuffer = Allocated(self, "stagingTransformsBuffer"),
        !.staging = [vertex |-> 0, index |-> 0, transform |-> 0] ]

\* faulty variant: the view starts from the counters of its source
SharedView_CopiesCounters(src) ==
    LET members ==
            [ NoView EXCEPT
                !.exists = TRUE, !.op = "construct",
                !.filtersFlags = src.filtersFlags,
                !.vertBuffer = src.vertBuffer,
                !.indexBuffer = src.indexBuffer,
                !.transformsBuffer = src.transformsBuffer,
                !.curVertexCount = src.curVertexCount,
                !.curIndexCount = src.curIndexCount,
                !.curPrimitiveCount = src.curPrimitiveCount,
                !.curTransformCount = src.curTransformCount ]
    IN  [ InitStagingBuffers(members, "view") EXCEPT
            !.filters = InitFilters(members.filtersFlags) ]

\* lines 99-118: VertexCollector( _src, _allocator )
SharedView(src) ==
    LET members ==
            [ NoView EXCEPT
                !.exists = TRUE, !.op = "construct",
                !.filtersFlags = src.filtersFlags,
                !.vertBuffer = src.vertBuffer,
                !.indexBuffer = src.indexBuffer,
                !.transformsBuffer = src.transformsBuffer,
                !.curVertexCount = 0,
                !.curIndexCount = 0,
                !.curPrimitiveCount = 0,
                !.curTransformCount = 0 ]
    IN  [ InitStagingBuffers(members, "view") EXCEPT
            !.filters = InitFilters(members.filtersFlags) ]

Init ==
    /\ filtersFlags \in FiltersFlagsChoices
    /\ filters = InitFilters(filtersFlags)
    /\ curVertexCount = 0
    /\ curIndexCount = 0
    /\ curPrimitiveCount = 0
    /\ curTransformCount = 0
    /\ staging = [vertex |-> 0, index |-> 0, transform |-> 0]
    /\ geomInfoMgr = 0
    /\ calls = 0
    /\ last = NoCall
    /\ cycle = NewCycle
    /\ rollback = NoRollback
    /\ view = NoView
    /\ textureOverrides = NoTextureOverrides

(***************************************************************************)
(* Sizes of the device buffers and of their staging buffers, in bytes.     *)
(***************************************************************************)
\* _bufferSize of the constructor: room for the vertices of the largest class
BufferSize(flags) ==
    (IF CF_DYNAMIC \in flags THEN MAX_DYNAMIC_VERTEX_COUNT
     ELSE MAX_STATIC_VERTEX_COUNT) * SizeofShVertex

INDEX_BUFFER_SIZE == MAX_INDEXED_PRIMITIVE_COUNT * 3 * SizeofUint32

TRANSFORM_BUFFER_SIZE == MAX_BOTTOM_LEVEL_GEOMETRIES_COUNT * SizeofTransform

\* Buffer::GetSize of a device buffer; its staging buffer has the same size
GetSize(buffer) ==
    CASE buffer = "vertBuffer" -> BufferSize(filtersFlags)
      [] buffer = "indexBuffer" -> INDEX_BUFFER_SIZE
      [] buffer = "transformsBuffer" -> TRANSFORM_BUFFER_SIZE

(***************************************************************************)
(* AddPrimitive( frameIndex, parentMesh, info, layerTextures, layerColors ) *)
(* geomFlags is the filter key computed from parentMesh and info,          *)
(* geomInfoCount is what geomInfoMgr->GetCount( frameIndex ) returns.      *)
(***************************************************************************)
\* history of the cycle: the calls made, the keys submitted, the reasons of the
\* rejections, and over the accepted primitives the sums of their counts, of
\* their triangles and of the elements skipped in front of them to reach a
\* multiple of 3, the end of the ranges of the staging buffers they wrote, and
\* for every key the primitives accepted with it, in the order of acceptance
Max(a, b) == IF a >= b THEN a ELSE b

Pad3(x) == (3 - (x % 3)) % 3

\* cycle.fresh: a collector constructed when the cycle began and given the
\* calls of the cycle, with the registry counts the calls read
FreshAfter(call) ==
    LET f == cycle.fresh
        k == call.geomFlags
        v == U32(AlignUpBy3(f.vertexCount) + call.vertexCount)
        i == U32(AlignUpBy3(f.indexCount)
                 + (IF call.useIndices THEN call.indexCount ELSE 0))
        accepted == /\ ~VertexLimitReached(v, MaxVertexCount(k))
                    /\ ~IndexLimitReached(i)
                    /\ ~GeomInfoLimitReached(call.geomInfoCount)
    IN  IF GroupLimitReached(f.geometryCount[k], GetAmountInGlobalArray(k))
        THEN f
        ELSE [ vertexCount    |-> v,
               indexCount     |-> i,
               transformCount |-> U32(f.transformCount + 1),
               geometryCount  |-> IF accepted
                                  THEN [f.geometryCount EXCEPT ![k] = @ + 1]
                                  ELSE f.geometryCount ]

CycleAfterRejected(call, reason) ==
    [cycle EXCEPT !.calls = @ + 1, !.rejectedBy = @ \cup {reason},
                  !.rejectedVertexMax =
                      IF reason = "vertex" /\ MaxVertexCount(call.geomFlags) > @
                      THEN MaxVertexCount(call.geomFlags) ELSE @,
                  !.keys = @ \cup {call.geomFlags},
                  !.fresh = FreshAfter(call)]

CycleAfterAccepted(call) ==
    LET indexed == call.indexCount # 0 /\ call.hasIndices
    IN  [cycle EXCEPT
            !.calls = @ + 1, !.accepted = @ + 1,
            !.keys = @ \cup {call.geomFlags},
            !.sumVertexCount = @ + call.vertexCount,
            !.sumIndexCount = @ + (IF indexed THEN call.indexCount ELSE 0),
            !.sumTriangleCount =
                @ + (IF indexed THEN call.indexCount \div 3
                     ELSE call.vertexCount \div 3),
            !.vertexPadding = @ + Pad3(call.preVertexCount),
            !.indexPadding = @ + Pad3(call.preIndexCount),
            !.fresh = FreshAfter(call),
            !.writtenVertexEnd = Max(@, call.vertIndex + call.vertexCount),
            !.writtenIndexEnd =
                IF indexed THEN Max(@, call.indIndex + call.indexCount) ELSE @,
            !.writtenTransformEnd = Max(@, call.transformIndex + 1),
            !.localIndices[call.geomFlags] = Append(@, call.localIndex),
            !.primitives[call.geomFlags] =
                Append(@, [ localIndex |-> call.localIndex,
                            vertIndex |-> call.vertIndex,
                            indIndex |-> call.indIndex,
                            transformIndex |-> call.transformIndex,
                            vertexCount |-> call.vertexCount,
                            indexCount |-> call.indexCount,
                            hasIndices |-> call.hasIndices ])]

\* the counters of a collector in which the rejected calls were never made:
\* only the accepted calls advance them
RollbackAfterAccepted(call) ==
    [ vertexCount    |-> U32(call.rollbackVertIndex + call.vertexCount),
      indexCount     |-> U32(call.rollbackIndIndex
                             + (IF call.useIndices THEN call.indexCount ELSE 0)),
      transformCount |-> U32(rollback.transformCount + 1) ]

\* the call as the operation "last" records it; the frame index and the
\* registry's count are recorded once line 248 has read them
CallRecord(geomFlags, vertexCount, indexCount, hasIndices) ==
    [ NoCall EXCEPT
        !.op = "AddPrimitive",
        !.fresh = cycle.fresh,
        !.geomFlags = geomFlags,
        !.vertexCount = vertexCount, !.indexCount = indexCount,
        !.hasIndices = hasIndices,
        !.useIndices = UseIndices(indexCount, hasIndices),
        !.triangleCount = TriangleCount(UseIndices(indexCount, hasIndices),
                                        vertexCount, indexCount),
        !.vertIndex = AlignUpBy3(curVertexCount),
        !.indIndex = AlignUpBy3(curIndexCount),
        !.transformIndex = curTransformCount,
        !.preVertexCount = curVertexCount, !.preIndexCount = curIndexCount,
        !.prePrimitiveCount = curPrimitiveCount,
        !.preTransformCount = curTransformCount,
        !.preGeometryCount = GetGeometryCount(geomFlags),
        !.rollbackVertIndex = AlignUpBy3(rollback.vertexCount),
        !.rollbackIndIndex = AlignUpBy3(rollback.indexCount),
        !.rollbackTransformIndex = rollback.transformCount ]

\* the condition asserted at lines 583, 592, 601, 694, 703, 711 and 718:
\* filters.find( type ) != filters.end()
KeyRegistered(type) == type \in DOMAIN filters

\* an assertion has failed: the process was aborted where assertions are
\* compiled in, and went on into a null bucket pointer where they are not
Aborted == last.rejectedBy = "assert"

\* the assertion on the key fails in operation op: nothing of the collector
\* has been written when it is reached, and no operation follows
AssertionFails(op, type) ==
    /\ \E outcome \in {"abort", "undefined"} :
           last' = [NoCall EXCEPT !.op = op, !.geomFlags = type, !.flags = type,
                                  !.rejectedBy = "assert", !.assertion = outcome]
    /\ UNCHANGED <<filters, curVertexCount, curIndexCount, curPrimitiveCount,
                   curTransformCount, staging, geomInfoMgr, cycle, rollback>>

\* faulty variant: the group is checked after the counters were advanced
RejectByGroup_AfterCounters(call) ==
    /\ last' = [call EXCEPT !.rejectedBy = "group"]
    /\ cycle' = CycleAfterRejected(call, "group")
    /\ curVertexCount' = U32(call.vertIndex + call.vertexCount)
    /\ curIndexCount' =
           U32(call.indIndex + (IF call.useIndices THEN call.indexCount ELSE 0))
    /\ curPrimitiveCount' = U32(curPrimitiveCount + call.triangleCount)
    /\ curTransformCount' = U32(curTransformCount + 1)
    /\ UNCHANGED <<filters, staging, geomInfoMgr, rollback>>

\* lines 193-205: the group is full, return false before anything is changed
RejectByGroup(call) ==
    /\ last' = [call EXCEPT !.rejectedBy = "group"]
    /\ cycle' = CycleAfterRejected(call, "group")
    /\ UNCHANGED <<filters, curVertexCount, curIndexCount, curPrimitiveCount,
                   curTransformCount, staging, geomInfoMgr, rollback>>

\* faulty variant: the counts are added to the counters as they are, not to the
\* aligned offsets
AdvanceCounters_Unaligned(call) ==
    /\ curVertexCount' = U32(curVertexCount + call.vertexCount)
    /\ curIndexCount' =
           U32(curIndexCount + (IF call.useIndices THEN call.indexCount ELSE 0))
    /\ curPrimitiveCount' = U32(curPrimitiveCount + call.triangleCount)
    /\ curTransformCount' = U32(curTransformCount + 1)

\* lines 214-224: the counters are advanced
AdvanceCounters(call) ==
    /\ curVertexCount' = U32(call.vertIndex + call.vertexCount)
    /\ curIndexCount' =
           U32(call.indIndex + (IF call.useIndices THEN call.indexCount ELSE 0))
    /\ curPrimitiveCount' = U32(curPrimitiveCount + call.triangleCount)
    /\ curTransformCount' = U32(curTransformCount + 1)

\* faulty variant: the bounds are checked after the vertices were copied to staging
RejectByBound_AfterCopy(call, reason) ==
    /\ last' = [call EXCEPT !.rejectedBy = reason,
                            !.vertexWrite = Memcpy(call.vertIndex, call.vertexCount)]
    /\ cycle' = CycleAfterRejected(call, reason)
    /\ staging' = [staging EXCEPT !.vertex = @ + 1]
    /\ UNCHANGED <<filters, geomInfoMgr, rollback>>

\* faulty variant: the geometry info is written before the bounds are checked
RejectByBound_AfterWriteGeomInfo(call, reason) ==
    /\ last' = [call EXCEPT !.rejectedBy = reason]
    /\ cycle' = CycleAfterRejected(call, reason)
    /\ geomInfoMgr' = geomInfoMgr + 1
    /\ UNCHANGED <<filters, staging, rollback>>

\* lines 228-253: a bound is reached, return false with the counters advanced
RejectByBound(call, reason) ==
    /\ last' = [call EXCEPT !.rejectedBy = reason]
    /\ cycle' = CycleAfterRejected(call, reason)
    /\ UNCHANGED <<filters, staging, geomInfoMgr, rollback>>

\* line 379, the condition asserted by CopyDataToStaging: the sum is one of
\* uint32_t, the product one of size_t
CopyDataToStagingAssert(vertIndex, vertexCount) ==
    U32(vertIndex + vertexCount) * SizeofShVertex < GetSize("vertBuffer")

\* lines 257-371: what an accepted call does, in the order of the code
AcceptSteps(useIndices) ==
    <<"CopyDataToStaging">>
    \o (IF useIndices THEN <<"memcpy indices">> ELSE <<>>)
    \o <<"memcpy transform", "PushGeometry", "PushRangeInfo", "PushPrimitiveCount",
         "WriteGeomInfo">>

\* lines 257-373: copy to staging, push to the bucket, write the geometry info
Accept(call) ==
    LET geom == MakeGeometry(call.geomFlags, call.vertIndex, call.indIndex,
                             call.transformIndex, call.useIndices, call.vertexCount)
        localIndex == GetGeometryCount(call.geomFlags)
        geomInfo == MakeGeomInfo(call.vertIndex, call.indIndex, call.useIndices,
                                 call.vertexCount, call.indexCount)
    IN  /\ staging' =
               [ vertex    |-> staging.vertex + 1,
                 index     |-> IF call.useIndices THEN staging.index + 1
                               ELSE staging.index,
                 transform |-> staging.transform + 1 ]
        /\ filters' =
               PushPrimitiveCount(
                   PushRangeInfo(
                       PushGeometry(filters, call.geomFlags, geom),
                       call.geomFlags, MakeRangeInfo(call.triangleCount)),
                   call.geomFlags, call.triangleCount)
        /\ geomInfoMgr' = geomInfoMgr + 1
        /\ last' =
               [call EXCEPT
                   !.accepted = TRUE, !.localIndex = localIndex,
                   !.steps = AcceptSteps(call.useIndices),
                   !.assertion =
                       IF CopyDataToStagingAssert(call.vertIndex, call.vertexCount)
                       THEN "none" ELSE "abort",
                   !.vertexWrite = Memcpy(call.vertIndex, call.vertexCount),
                   !.indexWrite = IF call.useIndices
                                  THEN Memcpy(call.indIndex, call.indexCount)
                                  ELSE NoMemcpy,
                   !.transformWrite = Memcpy(call.transformIndex, 1),
                   !.geomInfoWrite = WriteGeomInfo(call.frameIndex, localIndex,
                                                   call.geomFlags, geomInfo)]
        /\ cycle' = CycleAfterAccepted([call EXCEPT !.localIndex = localIndex])
        /\ rollback' = RollbackAfterAccepted(call)

\* line 248 onwards: the registry's count for the frame is read
CheckGeomInfoCount(call, frameIndex, geomInfoCount) ==
    LET read == [call EXCEPT !.frameIndex = frameIndex,
                             !.geomInfoCount = geomInfoCount]
    IN  IF GeomInfoLimitReached(geomInfoCount)
        THEN RejectByBound(read, "geomInfo")
        ELSE Accept(read)

AddPrimitive(geomFlags, vertexCount, indexCount, hasIndices) ==
    LET call == CallRecord(geomFlags, vertexCount, indexCount, hasIndices)
    IN  /\ calls < MaxCalls
        /\ ~Aborted
        /\ calls' = calls + 1
        /\ UNCHANGED <<textureOverrides, filtersFlags, view>>
        /\ IF ~KeyRegistered(geomFlags)
           THEN AssertionFails("AddPrimitive", geomFlags)
           ELSE IF GroupLimitReached(GetGeometryCount(geomFlags),
                                     GetAmountInGlobalArray(geomFlags))
           THEN RejectByGroup(call)
           ELSE /\ AdvanceCounters(call)
                /\ IF VertexLimitReached(curVertexCount', MaxVertexCount(geomFlags))
                   THEN RejectByBound(call, "vertex")
                   ELSE IF IndexLimitReached(curIndexCount')
                   THEN RejectByBound(call, "index")
                   ELSE \E frameIndex \in FrameIndices,
                           geomInfoCount \in GeomInfoCounts :
                            CheckGeomInfoCount(call, frameIndex, geomInfoCount)

(***************************************************************************)
(* Reset()                                                                 *)
(***************************************************************************)
Filter_Reset(f) == EmptyFilter

\* faulty variant: the buckets are not reset
Reset_KeepsBuckets ==
    /\ curVertexCount' = 0
    /\ curIndexCount' = 0
    /\ curPrimitiveCount' = 0
    /\ curTransformCount' = 0
    /\ last' = [NoCall EXCEPT !.op = "Reset"]
    /\ cycle' = NewCycle
    /\ rollback' = NoRollback
    /\ UNCHANGED <<textureOverrides, filtersFlags, filters, staging, geomInfoMgr, calls, view>>

\* faulty variant: the transform counter is not cleared
Reset_KeepsTransformCount ==
    /\ curVertexCount' = 0
    /\ curIndexCount' = 0
    /\ curPrimitiveCount' = 0
    /\ filters' = [f \in DOMAIN filters |-> Filter_Reset(filters[f])]
    /\ last' = [NoCall EXCEPT !.op = "Reset"]
    /\ cycle' = NewCycle
    /\ rollback' = NoRollback
    /\ UNCHANGED <<textureOverrides, filtersFlags, curTransformCount, staging, geomInfoMgr, calls, view>>

Reset ==
    /\ ~Aborted
    /\ curVertexCount' = 0
    /\ curIndexCount' = 0
    /\ curPrimitiveCount' = 0
    /\ curTransformCount' = 0
    /\ filters' = [f \in DOMAIN filters |-> Filter_Reset(filters[f])]
    /\ last' = [NoCall EXCEPT !.op = "Reset"]
    /\ cycle' = NewCycle
    /\ rollback' = NoRollback
    /\ UNCHANGED <<textureOverrides, filtersFlags, staging, geomInfoMgr, calls, view>>

(***************************************************************************)
(* AreGeometriesEmpty( flags )                                             *)
(***************************************************************************)
\* VertexCollectorFilter::GetFilter: the key the bucket was created with
Filter_GetFilter(key) == key

\* GetASGeometries, GetASBuildRangeInfos, GetPrimitiveCounts: the sequences of
\* the bucket registered for the key
GetASGeometries(filter) == filters[filter].geometries

GetASBuildRangeInfos(filter) == filters[filter].rangeInfos

GetPrimitiveCounts(filter) == filters[filter].primitiveCounts

\* faulty variant: the bucket must contain every bit of the flags' key
AreGeometriesEmpty_AllBits(flags) ==
    ~\E p \in DOMAIN filters :
        /\ (Filter_GetFilter(p) \cap flags) = Filter_GetFilter(p)
        /\ Filter_GetGeometryCount(filters[p]) > 0

AreGeometriesEmpty(flags) ==
    ~\E p \in DOMAIN filters :
        /\ (Filter_GetFilter(p) \cap flags) # {}
        /\ Filter_GetGeometryCount(filters[p]) > 0

\* the masks the collector is asked about
Masks ==
    { {}, {CF_DYNAMIC}, {CF_STATIC_NON_MOVABLE, PT_ALPHA_TESTED}, {PV_WORLD}, {PV_SKY} }

\* an operation that changes nothing of the collector
Query(record) ==
    /\ calls < MaxCalls
    /\ ~Aborted
    /\ calls' = calls + 1
    /\ last' = [record EXCEPT !.prev = last.op]
    /\ UNCHANGED <<textureOverrides, filtersFlags, filters, curVertexCount, curIndexCount,
                   curPrimitiveCount, curTransformCount, staging, geomInfoMgr,
                   cycle, rollback, view>>

CallAreGeometriesEmpty(flags) ==
    Query([NoCall EXCEPT !.op = "AreGeometriesEmpty", !.flags = flags,
                         !.result = AreGeometriesEmpty(flags)])

(***************************************************************************)
(* Commands recorded into the VkCommandBuffer.                             *)
(***************************************************************************)
\* vkCmdCopyBuffer( cmd, src, dst, 1, &info ) with info = {0, 0, size}
CmdCopyBuffer(src, dst, size) ==
    [ cmd |-> "vkCmdCopyBuffer", srcBuffer |-> src, dstBuffer |-> dst,
      srcOffset |-> 0, dstOffset |-> 0, size |-> size,
      srcStageMask |-> {}, dstStageMask |-> {}, barriers |-> <<>> ]

\* vkCmdPipelineBarrier( cmd, srcStage, dstStage, 0, 0, nullptr, n, barriers, 0, nullptr )
CmdPipelineBarrier(srcStage, dstStage, barriers) ==
    [ cmd |-> "vkCmdPipelineBarrier", srcBuffer |-> "none", dstBuffer |-> "none",
      srcOffset |-> 0, dstOffset |-> 0, size |-> 0,
      srcStageMask |-> srcStage, dstStageMask |-> dstStage, barriers |-> barriers ]

\* VkBufferMemoryBarrier
BufferMemoryBarrier(srcAccess, dstAccess, buffer, size) ==
    [ srcAccessMask |-> srcAccess, dstAccessMask |-> dstAccess,
      buffer |-> buffer, offset |-> 0, size |-> size ]

\* the value a copy function returns and the commands it recorded
Recorded(ret, cmds) == [ret |-> ret, cmds |-> cmds]

(***************************************************************************)
(* CopyFromStaging( cmd )                                                  *)
(***************************************************************************)
\* faulty variant: the copy is recorded for an empty buffer too
CopyVertexDataFromStaging_Always ==
    Recorded(TRUE, <<CmdCopyBuffer("stagingVertBuffer", "vertBuffer",
                                   curVertexCount * SizeofShVertex)>>)

CopyVertexDataFromStaging ==
    IF curVertexCount = 0
    THEN Recorded(FALSE, <<>>)
    ELSE Recorded(TRUE, <<CmdCopyBuffer("stagingVertBuffer", "vertBuffer",
                                        curVertexCount * SizeofShVertex)>>)

\* faulty variant: the indices are sized as vertices
CopyIndexDataFromStaging_VertexSize ==
    IF curIndexCount = 0
    THEN Recorded(FALSE, <<>>)
    ELSE Recorded(TRUE, <<CmdCopyBuffer("stagingIndexBuffer", "indexBuffer",
                                        curIndexCount * SizeofShVertex)>>)

CopyIndexDataFromStaging ==
    IF curIndexCount = 0
    THEN Recorded(FALSE, <<>>)
    ELSE Recorded(TRUE, <<CmdCopyBuffer("stagingIndexBuffer", "indexBuffer",
                                        curIndexCount * SizeofUint32)>>)

\* the barrier of the transforms, lines 460-481 and 545-565
TransformBarrier ==
    CmdPipelineBarrier(
        {"TRANSFER"}, {"ACCELERATION_STRUCTURE_BUILD"},
        <<BufferMemoryBarrier({"TRANSFER_WRITE"}, {"ACCELERATION_STRUCTURE_READ"},
                              "transformsBuffer",
                              curTransformCount * SizeofTransform)>>)

CopyTransformsFromStaging(insertMemBarrier) ==
    IF curTransformCount = 0
    THEN Recorded(FALSE, <<>>)
    ELSE Recorded(TRUE,
                  <<CmdCopyBuffer("stagingTransformsBuffer", "transformsBuffer",
                                  curTransformCount * SizeofTransform)>>
                  \o (IF insertMemBarrier THEN <<TransformBarrier>> ELSE <<>>))

\* faulty variant: one vkCmdPipelineBarrier for each buffer copied
VertexIndexBarrier_Separate(vrtCopied, indCopied) ==
    LET stages(br) == CmdPipelineBarrier(
                          {"TRANSFER"},
                          {"COMPUTE_SHADER", "ACCELERATION_STRUCTURE_BUILD"}, <<br>>)
    IN  (IF vrtCopied
         THEN <<stages(BufferMemoryBarrier({"TRANSFER_WRITE"},
                                           {"SHADER_READ", "SHADER_WRITE"}, "vertBuffer",
                                           curVertexCount * SizeofShVertex))>>
         ELSE <<>>)
        \o (IF indCopied
            THEN <<stages(BufferMemoryBarrier({"TRANSFER_WRITE"},
                                              {"SHADER_READ", "SHADER_WRITE"},
                                              "indexBuffer",
                                              curIndexCount * SizeofUint32))>>
            ELSE <<>>)

\* lines 494-543: the barrier of the vertices and indices copied
VertexIndexBarrier(vrtCopied, indCopied) ==
    LET vrtBr == BufferMemoryBarrier({"TRANSFER_WRITE"},
                                     {"SHADER_READ", "SHADER_WRITE"},
                                     "vertBuffer", curVertexCount * SizeofShVertex)
        indBr == BufferMemoryBarrier({"TRANSFER_WRITE"},
                                     {"SHADER_READ", "SHADER_WRITE"},
                                     "indexBuffer", curIndexCount * SizeofUint32)
        barriers == (IF vrtCopied THEN <<vrtBr>> ELSE <<>>)
                    \o (IF indCopied THEN <<indBr>> ELSE <<>>)
    IN  IF Len(barriers) > 0
        THEN <<CmdPipelineBarrier({"TRANSFER"},
                                  {"COMPUTE_SHADER", "ACCELERATION_STRUCTURE_BUILD"},
                                  barriers)>>
        ELSE <<>>

CopyFromStaging ==
    LET vrt == CopyVertexDataFromStaging
        ind == CopyIndexDataFromStaging
        trn == CopyTransformsFromStaging(FALSE)
    IN  Recorded(vrt.ret \/ ind.ret \/ trn.ret,
                 vrt.cmds \o ind.cmds \o trn.cmds
                 \o VertexIndexBarrier(vrt.ret, ind.ret)
                 \o (IF trn.ret THEN <<TransformBarrier>> ELSE <<>>))

\* faulty variant: the counters are cleared once the copies are recorded
CallCopyFromStaging_ClearsCounters ==
    /\ calls < MaxCalls
    /\ ~Aborted
    /\ calls' = calls + 1
    /\ last' = [NoCall EXCEPT !.op = "CopyFromStaging",
                              !.result = CopyFromStaging.ret,
                              !.cmds = CopyFromStaging.cmds,
                              !.prev = last.op]
    /\ curVertexCount' = 0
    /\ curIndexCount' = 0
    /\ curTransformCount' = 0
    /\ UNCHANGED <<textureOverrides, filtersFlags, filters, curPrimitiveCount, staging, geomInfoMgr,
                   cycle, rollback, view>>

CallCopyFromStaging ==
    Query([NoCall EXCEPT !.op = "CopyFromStaging",
                         !.result = CopyFromStaging.ret,
                         !.cmds = CopyFromStaging.cmds])

(***************************************************************************)
(* InsertVertexPreprocessFinishBarrier( cmd )                              *)
(***************************************************************************)
\* lines 643-674: the memory barrier of one buffer after the preprocessing
FinishBarrier(buffer, size) ==
    BufferMemoryBarrier({"SHADER_READ", "SHADER_WRITE"},
                        {"ACCELERATION_STRUCTURE_READ", "SHADER_READ"}, buffer, size)

\* faulty variant: both buffers are covered as soon as one counter is not 0
InsertVertexPreprocessFinishBarrier_Both ==
    IF curVertexCount = 0 /\ curIndexCount = 0
    THEN <<>>
    ELSE <<CmdPipelineBarrier(
               {"COMPUTE_SHADER"},
               {"ACCELERATION_STRUCTURE_BUILD", "RAY_TRACING_SHADER"},
               <<FinishBarrier("vertBuffer", curVertexCount * SizeofShVertex),
                 FinishBarrier("indexBuffer", curIndexCount * SizeofUint32)>>)>>

InsertVertexPreprocessFinishBarrier ==
    LET barriers ==
            (IF curVertexCount > 0
             THEN <<FinishBarrier("vertBuffer", curVertexCount * SizeofShVertex)>>
             ELSE <<>>)
            \o (IF curIndexCount > 0
                THEN <<FinishBarrier("indexBuffer", curIndexCount * SizeofUint32)>>
                ELSE <<>>)
    IN  IF Len(barriers) = 0
        THEN <<>>
        ELSE <<CmdPipelineBarrier(
                   {"COMPUTE_SHADER"},
                   {"ACCELERATION_STRUCTURE_BUILD", "RAY_TRACING_SHADER"},
                   barriers)>>

CallInsertVertexPreprocessFinishBarrier ==
    Query([NoCall EXCEPT !.op = "InsertVertexPreprocessFinishBarrier",
                         !.cmds = InsertVertexPreprocessFinishBarrier])

Next ==
    \/ \E geomFlags \in DOMAIN filters :
          \E info \in Primitives(geomFlags) :
              AddPrimitive(geomFlags, info[1], info[2], info[3])
    \/ Reset
    \/ \E flags \in Masks : CallAreGeometriesEmpty(flags)
    \/ CallCopyFromStaging
    \/ CallInsertVertexPreprocessFinishBarrier

Spec == Init /\ [][Next]_vars

(***************************************************************************)
(* Operations called with keys that may not be registered.                 *)
(***************************************************************************)
\* the keys the operations are called with: the registered ones, group
\* combinations that are registered for some flags or for none, and a key
\* that lacks a group
KeysAsked ==
    DOMAIN filters
    \cup { {CF_STATIC_MOVABLE, PT_OPAQUE, PV_WORLD},
           {CF_STATIC_NON_MOVABLE, PT_OPAQUE, PV_WORLD},
           {CF_DYNAMIC, PT_ALPHA_TESTED, PV_WORLD},
           {CF_DYNAMIC, PV_WORLD} }

\* the operations that look a bucket up by its key (lines 581-606, 716-721)
Getters ==
    {"GetPrimitiveCounts", "GetASGeometries", "GetASBuildRangeInfos",
     "GetGeometryCount"}

CallGetter(name, filter) ==
    IF KeyRegistered(filter)
    THEN Query([NoCall EXCEPT !.op = name, !.flags = filter, !.result = TRUE])
    ELSE /\ calls < MaxCalls
         /\ ~Aborted
         /\ calls' = calls + 1
         /\ AssertionFails(name, filter)
         /\ UNCHANGED <<textureOverrides, filtersFlags, view>>

NextAsked ==
    \/ \E geomFlags \in KeysAsked :
          \E info \in SharedPrimitives(geomFlags) :
              AddPrimitive(geomFlags, info[1], info[2], info[3])
    \/ Reset
    \/ \E name \in Getters, filter \in KeysAsked : CallGetter(name, filter)

SpecAsked == Init /\ [][NextAsked]_vars

(***************************************************************************)
(* Every operation that reads the collector, between AddPrimitive and      *)
(* Reset calls.                                                            *)
(***************************************************************************)
\* lines 630-633: no command is recorded
InsertVertexPreprocessBeginBarrier == <<>>

CallInsertVertexPreprocessBeginBarrier ==
    Query([NoCall EXCEPT !.op = "InsertVertexPreprocessBeginBarrier",
                         !.cmds = InsertVertexPreprocessBeginBarrier])

GetCurrentVertexCount == curVertexCount

GetCurrentIndexCount == curIndexCount

\* the operations that return a count (lines 723-743)
CountGetters ==
    {"GetAllGeometryCount", "GetCurrentVertexCount", "GetCurrentIndexCount"}

CallCountGetter(name) ==
    Query([NoCall EXCEPT
              !.op = name,
              !.value = IF name = "GetAllGeometryCount" THEN GetAllGeometryCount
                        ELSE IF name = "GetCurrentVertexCount"
                        THEN GetCurrentVertexCount
                        ELSE GetCurrentIndexCount])

NextQueries ==
    \/ \E geomFlags \in DOMAIN filters :
          \E info \in SharedPrimitives(geomFlags) :
              AddPrimitive(geomFlags, info[1], info[2], info[3])
    \/ Reset
    \/ \E flags \in Masks : CallAreGeometriesEmpty(flags)
    \/ CallCopyFromStaging
    \/ CallInsertVertexPreprocessBeginBarrier
    \/ CallInsertVertexPreprocessFinishBarrier
    \/ \E name \in Getters, filter \in DOMAIN filters : CallGetter(name, filter)
    \/ \E name \in CountGetters : CallCountGetter(name)

SpecQueries == Init /\ [][NextQueries]_vars

(***************************************************************************)
(* The shared view: a second collector constructed from the first, and the *)
(* operations made on it.                                                  *)
(***************************************************************************)
ConstructView ==
    /\ ~view.exists
    /\ view' = SharedView(Source)
    /\ UNCHANGED <<textureOverrides, filtersFlags, filters, curVertexCount, curIndexCount,
                   curPrimitiveCount, curTransformCount, staging, geomInfoMgr,
                   calls, last, cycle, rollback>>

\* AddPrimitive (lines 182-374) on collector v; result is the value returned
View_AddPrimitive(v, geomFlags, vertexCount, indexCount, hasIndices, geomInfoCount) ==
    LET vertIndex == AlignUpBy3(v.curVertexCount)
        indIndex == AlignUpBy3(v.curIndexCount)
        transformIndex == v.curTransformCount
        useIndices == UseIndices(indexCount, hasIndices)
        triangleCount == TriangleCount(useIndices, vertexCount, indexCount)
        called == [v EXCEPT !.op = "AddPrimitive", !.result = FALSE, !.cmds = <<>>]
        moved ==
            [ called EXCEPT
                !.curVertexCount = U32(vertIndex + vertexCount),
                !.curIndexCount = U32(indIndex + (IF useIndices THEN indexCount ELSE 0)),
                !.curPrimitiveCount = U32(@ + triangleCount),
                !.curTransformCount = U32(@ + 1) ]
        geom == MakeGeometry(geomFlags, vertIndex, indIndex, transformIndex,
                             useIndices, vertexCount)
    IN  IF GroupLimitReached(Filter_GetGeometryCount(v.filters[geomFlags]),
                             GetAmountInGlobalArray(geomFlags))
        THEN called
        ELSE IF \/ VertexLimitReached(moved.curVertexCount, MaxVertexCount(geomFlags))
                \/ IndexLimitReached(moved.curIndexCount)
                \/ GeomInfoLimitReached(geomInfoCount)
        THEN moved
        ELSE [ moved EXCEPT
                 !.result = TRUE,
                 !.staging =
                     [ vertex    |-> @.vertex + 1,
                       index     |-> IF useIndices THEN @.index + 1 ELSE @.index,
                       transform |-> @.transform + 1 ],
                 !.filters =
                     PushPrimitiveCount(
                         PushRangeInfo(PushGeometry(@, geomFlags, geom),
                                       geomFlags, MakeRangeInfo(triangleCount)),
                         geomFlags, triangleCount) ]

\* AddPrimitive called on the view; the registry is the one of the source
ViewAddPrimitive(geomFlags, vertexCount, indexCount, hasIndices) ==
    /\ view.exists
    /\ calls < MaxCalls
    /\ geomFlags \in DOMAIN view.filters
    /\ calls' = calls + 1
    /\ \E geomInfoCount \in GeomInfoCounts :
           view' = View_AddPrimitive(view, geomFlags, vertexCount, indexCount,
                                     hasIndices, geomInfoCount)
    /\ geomInfoMgr' = IF view'.result THEN geomInfoMgr + 1 ELSE geomInfoMgr
    /\ UNCHANGED <<textureOverrides, filtersFlags, filters, curVertexCount, curIndexCount,
                   curPrimitiveCount, curTransformCount, staging, last, cycle,
                   rollback>>

\* Reset (lines 395-406) called on the view
ViewReset ==
    /\ view.exists
    /\ view' = [ view EXCEPT
                   !.op = "Reset", !.result = FALSE, !.cmds = <<>>,
                   !.curVertexCount = 0, !.curIndexCount = 0,
                   !.curPrimitiveCount = 0, !.curTransformCount = 0,
                   !.filters = [f \in DOMAIN @ |-> Filter_Reset(@[f])] ]
    /\ UNCHANGED <<textureOverrides, filtersFlags, filters, curVertexCount, curIndexCount,
                   curPrimitiveCount, curTransformCount, staging, geomInfoMgr,
                   calls, last, cycle, rollback>>

\* the vkCmdCopyBuffer's of CopyFromStaging (lines 408-458) on collector v
View_CopyFromStaging(v) ==
    (IF v.curVertexCount = 0 THEN <<>>
     ELSE <<[ srcBuffer |-> v.stagingVertBuffer, dstBuffer |-> v.vertBuffer,
              size |-> v.curVertexCount * SizeofShVertex ]>>)
    \o (IF v.curIndexCount = 0 THEN <<>>
        ELSE <<[ srcBuffer |-> v.stagingIndexBuffer, dstBuffer |-> v.indexBuffer,
                 size |-> v.curIndexCount * SizeofUint32 ]>>)
    \o (IF v.curTransformCount = 0 THEN <<>>
        ELSE <<[ srcBuffer |-> v.stagingTransformsBuffer,
                 dstBuffer |-> v.transformsBuffer,
                 size |-> v.curTransformCount * SizeofTransform ]>>)

\* CopyFromStaging called on the view
ViewCopyFromStaging ==
    /\ view.exists
    /\ calls < MaxCalls
    /\ calls' = calls + 1
    /\ view' = [ view EXCEPT
                   !.op = "CopyFromStaging",
                   !.cmds = View_CopyFromStaging(view),
                   !.result = View_CopyFromStaging(view) # <<>> ]
    /\ UNCHANGED <<textureOverrides, filtersFlags, filters, curVertexCount, curIndexCount,
                   curPrimitiveCount, curTransformCount, staging, geomInfoMgr,
                   last, cycle, rollback>>

NextShared ==
    \/ \E geomFlags \in DOMAIN filters :
          \E info \in SharedPrimitives(geomFlags) :
              AddPrimitive(geomFlags, info[1], info[2], info[3])
    \/ Reset
    \/ CallCopyFromStaging
    \/ ConstructView
    \/ \E geomFlags \in DOMAIN view.filters :
          \E info \in SharedPrimitives(geomFlags) :
              ViewAddPrimitive(geomFlags, info[1], info[2], info[3])
    \/ ViewReset
    \/ ViewCopyFromStaging

SpecShared == Init /\ [][NextShared]_vars

(***************************************************************************)
(* A collector late in a cycle: after many AddPrimitive calls that the     *)
(* registry check rejected, the operations of Spec are made.               *)
(***************************************************************************)
\* collector c after n more calls of AddPrimitive with key k and a primitive of
\* 3 vertices, each made while the registry reports
\* MAX_BOTTOM_LEVEL_GEOMETRIES_COUNT - 1 geometries for the frame
RECURSIVE RejectedCalls(_, _, _)
RejectedCalls(c, k, n) ==
    IF n = 0 THEN c
    ELSE IF n % 2 = 0
    THEN CHOOSE after \in { RejectedCalls(half, k, n \div 2) :
                                half \in { RejectedCalls(c, k, n \div 2) } } : TRUE
    ELSE CHOOSE after \in { View_AddPrimitive(before, k, 3, 0, TRUE,
                                              MAX_BOTTOM_LEVEL_GEOMETRIES_COUNT - 1) :
                                before \in { RejectedCalls(c, k, n - 1) } } : TRUE

\* the record of the last of n such calls, made on collector c
LastRejected(c, k) ==
    [ NoCall EXCEPT
        !.op = "AddPrimitive", !.rejectedBy = "geomInfo",
        !.fresh = [NewCollector EXCEPT !.vertexCount = c.curVertexCount,
                                       !.indexCount = c.curIndexCount,
                                       !.transformCount = c.curTransformCount],
        !.geomFlags = k, !.vertexCount = 3, !.hasIndices = TRUE,
        !.geomInfoCount = MAX_BOTTOM_LEVEL_GEOMETRIES_COUNT - 1,
        !.triangleCount = TriangleCount(FALSE, 3, 0),
        !.vertIndex = AlignUpBy3(c.curVertexCount),
        !.indIndex = AlignUpBy3(c.curIndexCount),
        !.transformIndex = c.curTransformCount,
        !.preVertexCount = c.curVertexCount, !.preIndexCount = c.curIndexCount,
        !.prePrimitiveCount = c.curPrimitiveCount,
        !.preTransformCount = c.curTransformCount ]

InitLate ==
    /\ filtersFlags \in FiltersFlagsChoices
    /\ filters = InitFilters(filtersFlags)
    /\ \E n \in {RejectedBefore, RejectedBefore + 1}, k \in DOMAIN filters :
           LET new == [NoView EXCEPT !.filtersFlags = filtersFlags,
                                     !.filters = filters]
               before == RejectedCalls(new, k, n - 1)
               c == RejectedCalls(new, k, n)
           IN  /\ curVertexCount = c.curVertexCount
               /\ curIndexCount = c.curIndexCount
               /\ curPrimitiveCount = c.curPrimitiveCount
               /\ curTransformCount = c.curTransformCount
               /\ staging = c.staging
               /\ last = LastRejected(before, k)
               /\ cycle = [ NewCycle EXCEPT
                              !.calls = n, !.rejectedBy = {"geomInfo"},
                              !.keys = {k},
                              !.fresh =
                                  [NewCollector EXCEPT
                                      !.vertexCount = c.curVertexCount,
                                      !.indexCount = c.curIndexCount,
                                      !.transformCount = c.curTransformCount] ]
    /\ geomInfoMgr = 0
    /\ calls = 0
    /\ rollback = NoRollback
    /\ view = NoView
    /\ textureOverrides = NoTextureOverrides

NextLate ==
    \/ \E geomFlags \in DOMAIN filters :
          \E info \in SharedPrimitives(geomFlags) :
              AddPrimitive(geomFlags, info[1], info[2], info[3])
    \/ Reset
    \/ CallCopyFromStaging

SpecLate == InitLate /\ [][NextLate]_vars

(***************************************************************************)
(* TextureOverrides( relativePath, defaultTextures, defaultSize,           *)
(*                   overrideInfo, loader )                                *)
(***************************************************************************)
TEXTURES_PER_MATERIAL_COUNT == 3

Slots == 1..TEXTURES_PER_MATERIAL_COUNT

\* <<sRGB format, UNORM format>>: the cases of ToUnorm and of ToSRGB
FormatPairs ==
    { <<"R8_SRGB", "R8_UNORM">>,
      <<"R8G8_SRGB", "R8G8_UNORM">>,
      <<"R8G8B8_SRGB", "R8G8B8_UNORM">>,
      <<"B8G8R8_SRGB", "B8G8R8_UNORM">>,
      <<"R8G8B8A8_SRGB", "R8G8B8A8_UNORM">>,
      <<"B8G8R8A8_SRGB", "B8G8R8A8_UNORM">>,
      <<"A8B8G8R8_SRGB_PACK32", "A8B8G8R8_UNORM_PACK32">>,
      <<"BC1_RGB_SRGB_BLOCK", "BC1_RGB_UNORM_BLOCK">>,
      <<"BC1_RGBA_SRGB_BLOCK", "BC1_RGBA_UNORM_BLOCK">>,
      <<"BC2_SRGB_BLOCK", "BC2_UNORM_BLOCK">>,
      <<"BC3_SRGB_BLOCK", "BC3_UNORM_BLOCK">>,
      <<"BC7_SRGB_BLOCK", "BC7_UNORM_BLOCK">> }

ToUnorm(f) ==
    IF \E p \in FormatPairs : p[1] = f
    THEN (CHOOSE p \in FormatPairs : p[1] = f)[2]
    ELSE f

ToSRGB(f) ==
    IF \E p \in FormatPairs : p[2] = f
    THEN (CHOOSE p \in FormatPairs : p[2] = f)[1]
    ELSE f

NullPath == "nullptr"

NoResult == [ hasValue |-> FALSE ]

Loader_GetExtension(loader) ==
    IF loader = "ImageLoaderDev" THEN ".png" ELSE ".ktx2"

\* std::nullopt (NoResult) or commonFolderPath / relativePath with the postfix
\* and the extension
GetTexturePath(commonFolderPath, relativePath, postfix, extension) ==
    IF relativePath = NullPath
    THEN NoResult
    ELSE [ hasValue |-> TRUE,
           value |-> <<commonFolderPath, relativePath, postfix, extension>> ]

\* what the loader returns for a path: nothing, or the image of the file, of
\* which the constructor touches the format only
Loader_Load(loader, filepath, file) ==
    IF file = "none"
    THEN NoResult
    ELSE [ hasValue |-> TRUE, from |-> <<loader, filepath>>, levelCount |-> 1,
           levelSizes |-> <<"size of the file's level">>,
           baseSize |-> "size of the file's image", format |-> file ]

\* lines 192-202
DefaultResult(defaultSize, originalIsSRGB) ==
    LET defaultDataSize == U32(4 * defaultSize[1] * defaultSize[2])
    IN  [ hasValue |-> TRUE, from |-> <<"defaultData">>, levelCount |-> 1,
          levelSizes |-> <<defaultDataSize>>,
          baseSize |-> defaultSize,
          format |-> IF originalIsSRGB THEN "R8G8B8A8_SRGB" ELSE "R8G8B8A8_UNORM" ]

\* lines 166-181: the paths handed to the loader and results[ i ] after the
\* first loop, for slot i
Override(given, i) ==
    LET path == GetTexturePath(given.texturesPath, given.relativePath,
                               given.postfixes[i], Loader_GetExtension(given.loader))
    IN  IF ~given.disableOverride /\ path.hasValue
        THEN LET result == Loader_Load(given.loader, path.value, given.files[i])
             IN  [ loaded |-> <<path.value>>,
                   result |-> IF result.hasValue
                              THEN [result EXCEPT
                                       !.format = IF given.overridenIsSRGB[i]
                                                  THEN ToSRGB(@) ELSE ToUnorm(@)]
                              ELSE result ]
        ELSE [ loaded |-> <<>>, result |-> NoResult ]

\* faulty variant: default data, when provided, is used whether or not a file
\* was loaded
TextureOverrides_DefaultFirst(given) ==
    [ constructed |-> TRUE,
      given |-> given,
      loaded |-> [i \in Slots |-> Override(given, i).loaded],
      results |->
          [i \in Slots |->
              IF given.defaultData[i]
              THEN DefaultResult(given.defaultSize, given.originalIsSRGB[i])
              ELSE Override(given, i).result] ]

\* the object after the constructor (lines 141-205)
TextureOverrides(given) ==
    [ constructed |-> TRUE,
      given |-> given,
      loaded |-> [i \in Slots |-> Override(given, i).loaded],
      results |->
          [i \in Slots |->
              IF ~Override(given, i).result.hasValue /\ given.defaultData[i]
              THEN DefaultResult(given.defaultSize, given.originalIsSRGB[i])
              ELSE Override(given, i).result] ]

\* formats of the files the loader finds: of a pair of ToSRGB and ToUnorm, or
\* of none ("none": the loader returns nothing)
LoadedFiles == {"none", "R8G8B8A8_SRGB", "BC7_UNORM_BLOCK", "ASTC_4x4_UNORM_BLOCK"}

\* <<width, height>> of the default data: small, and one for which
\* 4 * width * height reaches the size of the word
DefaultSizes == { <<2, 3>>, <<2048, 2048>> }

\* per slot: the file the loader finds, overridenIsSRGB, whether default data
\* is provided, and originalIsSRGB (read only when default data is provided)
SlotInputs ==
    { <<file, overriden, default, original>> \in
          LoadedFiles \X BOOLEAN \X BOOLEAN \X BOOLEAN :
              ~default => ~original }

\* the arguments of the constructor, with what the loader finds per slot
Given(relativePath, loader, disableOverride, defaultSize, slot) ==
    [ relativePath |-> relativePath,
      texturesPath |-> "overrides",
      postfixes |-> [i \in Slots |-> <<"postfix", i>>],
      loader |-> loader,
      disableOverride |-> disableOverride,
      overridenIsSRGB |-> [i \in Slots |-> slot[i][2]],
      originalIsSRGB |-> [i \in Slots |-> slot[i][4]],
      defaultData |-> [i \in Slots |-> slot[i][3]],
      defaultSize |-> defaultSize,
      files |-> [i \in Slots |-> slot[i][1]] ]

ConstructTextureOverrides ==
    /\ ~textureOverrides.constructed
    /\ \E relativePath \in {NullPath, "material"},
          loader \in {"ImageLoaderDev", "ImageLoader"},
          disableOverride \in BOOLEAN,
          defaultSize \in DefaultSizes,
          slot \in [Slots -> SlotInputs] :
           textureOverrides' =
               TextureOverrides(Given(relativePath, loader, disableOverride,
                                      defaultSize, slot))
    /\ UNCHANGED <<filtersFlags, filters, curVertexCount, curIndexCount,
                   curPrimitiveCount, curTransformCount, staging, geomInfoMgr,
                   calls, last, cycle, rollback, view>>

NextTextures == ConstructTextureOverrides

\* one collector is enough next to the texture overrides
InitTextures ==
    /\ Init
    /\ filtersFlags = {CF_DYNAMIC, PT_OPAQUE, PT_ALPHA_TESTED, PV_WORLD}

SpecTextures == InitTextures /\ [][NextTextures]_vars

(***************************************************************************)
(* Properties.                                                             *)
(***************************************************************************)
IsAddPrimitive == last.op = "AddPrimitive"

BoundReasons == {"vertex", "index", "geomInfo"}

\* the geometry the last accepted call pushed
LastGeometry ==
    filters[last.geomFlags].geometries[Len(filters[last.geomFlags].geometries)]

\* the index count a call adds to the index counter
IndexCountOf(l) == IF l.indexCount # 0 /\ l.hasIndices THEN l.indexCount ELSE 0

RECURSIVE SumSeq(_)
SumSeq(q) == IF q = <<>> THEN 0 ELSE Head(q) + SumSeq(Tail(q))

RECURSIVE SumPrimitiveCounts(_)
SumPrimitiveCounts(keys) ==
    IF keys = {} THEN 0
    ELSE LET k == CHOOSE k \in keys : TRUE
         IN SumSeq(filters[k].primitiveCounts) + SumPrimitiveCounts(keys \ {k})

\* C1: every accepted AddPrimitive, whatever calls (accepted or rejected) and
\* Resets came before it, is assigned a vertex offset and an index offset that
\* are multiples of 3: the offsets of the staging writes, of the addresses of
\* the geometry descriptor and of the record handed to the registry.
C1_OffsetsAligned ==
    (IsAddPrimitive /\ last.accepted) =>
        /\ last.vertIndex % 3 = 0
        /\ last.indIndex % 3 = 0
        /\ last.vertexWrite.offset = last.vertIndex
        /\ LastGeometry.vertexData.offset = last.vertIndex * SizeofShVertex
        /\ last.geomInfoWrite.geomInfo.baseVertexIndex = last.vertIndex
        /\ last.useIndices =>
               /\ last.indexWrite.offset = last.indIndex
               /\ LastGeometry.indexData.offset = last.indIndex * SizeofUint32
               /\ last.geomInfoWrite.geomInfo.baseIndexIndex = last.indIndex

\* an indexed primitive accepted when neither counter was a multiple of 3,
\* after a rejection in the same cycle
C1_Witness ==
    /\ IsAddPrimitive /\ last.accepted /\ last.useIndices
    /\ last.preVertexCount % 3 # 0
    /\ last.preIndexCount % 3 # 0
    /\ cycle.rejectedBy # {}

\* C2 as stated: when every call since construction or the last Reset was
\* accepted, the vertex counter is the sum of the vertexCounts and the index
\* counter the sum of the indexCounts of the indexed primitives.
C2_CountersAreSums ==
    cycle.rejectedBy = {} =>
        /\ curVertexCount = cycle.sumVertexCount
        /\ curIndexCount = cycle.sumIndexCount

\* C2 amended: when every call since construction or the last Reset was
\* accepted, the vertex counter is, in unsigned word arithmetic, the sum of the
\* vertexCounts plus the elements skipped in front of each primitive to start
\* it at a multiple of 3 (0, 1 or 2 each), and it is the plain sum exactly when
\* nothing was skipped; the same for the index counter and the indexCounts of
\* the indexed primitives.
C2_CountersAreSumsPlusPadding ==
    cycle.rejectedBy = {} =>
        /\ curVertexCount = U32(cycle.sumVertexCount + cycle.vertexPadding)
        /\ curIndexCount = U32(cycle.sumIndexCount + cycle.indexPadding)
        /\ cycle.vertexPadding <= 2 * cycle.accepted
        /\ cycle.indexPadding <= 2 * cycle.accepted
        /\ (cycle.vertexPadding = 0) <=> (curVertexCount = U32(cycle.sumVertexCount))
        /\ (cycle.indexPadding = 0) <=> (curIndexCount = U32(cycle.sumIndexCount))

\* three primitives accepted, with elements skipped in both buffers
C2_Witness ==
    /\ cycle.rejectedBy = {} /\ cycle.accepted >= 2
    /\ cycle.vertexPadding > 0
    /\ cycle.indexPadding > 0
    /\ curVertexCount > cycle.sumVertexCount

C4_BoundaryExact ==
    LET vertexAfter == last.vertIndex + last.vertexCount
        indexAfter == last.indIndex + IndexCountOf(last)
        maxVertex == IF last.geomFlags \cap {CF_STATIC_NON_MOVABLE, CF_STATIC_MOVABLE} # {}
                     THEN MAX_STATIC_VERTEX_COUNT ELSE MAX_DYNAMIC_VERTEX_COUNT
        maxIndex == MAX_INDEXED_PRIMITIVE_COUNT * 3
        groupOk == last.preGeometryCount + 1 < GetAmountInGlobalArray(last.geomFlags)
        registryOk == last.rejectedBy # "geomInfo"
    IN  (IsAddPrimitive /\ groupOk) =>
            /\ (vertexAfter = maxVertex /\ indexAfter < maxIndex) => ~last.accepted
            /\ (vertexAfter = maxVertex - 1 /\ indexAfter < maxIndex /\ registryOk)
                   => last.accepted
            /\ (indexAfter = maxIndex /\ vertexAfter < maxVertex) => ~last.accepted
            /\ (indexAfter = maxIndex - 1 /\ vertexAfter < maxVertex /\ registryOk)
                   => last.accepted

\* a primitive accepted that ends one element below both limits
C4_Witness ==
    /\ IsAddPrimitive /\ last.accepted
    /\ last.vertIndex + last.vertexCount
           \in {MAX_STATIC_VERTEX_COUNT - 1, MAX_DYNAMIC_VERTEX_COUNT - 1}
    /\ last.indIndex + IndexCountOf(last) = MAX_INDEXED_PRIMITIVE_COUNT * 3 - 1

\* C5: AddPrimitive returns false whenever the geometry count of the key's
\* bucket plus one is greater than or equal to the key's capacity in the
\* global array, so no bucket ever holds as many geometries as its capacity.
C5_GroupBelowCapacity ==
    /\ \A f \in DOMAIN filters :
           Len(filters[f].geometries) < GetAmountInGlobalArray(f)
    /\ (IsAddPrimitive
        /\ last.preGeometryCount + 1 >= GetAmountInGlobalArray(last.geomFlags))
           => ~last.accepted

\* a call rejected because its group is full
C5_Witness ==
    /\ IsAddPrimitive /\ last.rejectedBy = "group"
    /\ Len(filters[last.geomFlags].geometries) + 1
           = GetAmountInGlobalArray(last.geomFlags)

\* the calls of the cycle all had the key of the last call and none of them
\* reached the vertex, index or registry limit
SameKeyRun ==
    /\ IsAddPrimitive
    /\ cycle.keys = {last.geomFlags}
    /\ cycle.rejectedBy \cap BoundReasons = {}

\* C6 as stated: from an empty collector and with one key, the first cap calls
\* are accepted, the (cap+1)-th returns false, and the bucket then holds cap
\* geometries (cap the key's capacity in the global array).
C6_CapCallsAccepted ==
    SameKeyRun =>
        LET cap == GetAmountInGlobalArray(last.geomFlags)
            held == Len(filters[last.geomFlags].geometries)
        IN  /\ cycle.calls <= cap => (last.accepted /\ held = cycle.calls)
            /\ cycle.calls = cap + 1 => (~last.accepted /\ held = cap)

\* C6 amended: from an empty collector and with one key, the first cap - 1
\* calls are accepted, the cap-th call and every later one return false, and
\* the bucket then holds exactly cap - 1 geometries.
C6_CapMinusOneCallsAccepted ==
    SameKeyRun =>
        LET cap == GetAmountInGlobalArray(last.geomFlags)
            held == Len(filters[last.geomFlags].geometries)
        IN  /\ cycle.calls <= cap - 1 => (last.accepted /\ held = cycle.calls)
            /\ cycle.calls >= cap =>
                   (~last.accepted /\ last.rejectedBy = "group" /\ held = cap - 1)

\* the cap-th call with one key has just returned false
C6_Witness ==
    /\ SameKeyRun
    /\ cycle.calls = GetAmountInGlobalArray(last.geomFlags)
    /\ ~last.accepted

\* C7: a call rejected by the vertex, index or registry check leaves the four
\* counters at the values it advanced them to, changes no bucket, writes
\* nothing to a staging buffer and does not call WriteGeomInfo.
C7_RejectedKeepsCounters ==
    [][ (last'.op = "AddPrimitive" /\ calls' = calls + 1
         /\ last'.rejectedBy \in BoundReasons) =>
            /\ curVertexCount'
                   = U32((U32(curVertexCount + 2) \div 3) * 3 + last'.vertexCount)
            /\ curIndexCount'
                   = U32((U32(curIndexCount + 2) \div 3) * 3 + IndexCountOf(last'))
            /\ curPrimitiveCount'
                   = U32(curPrimitiveCount
                         + (IF IndexCountOf(last') # 0 THEN last'.indexCount \div 3
                            ELSE last'.vertexCount \div 3))
            /\ curTransformCount' = curTransformCount + 1
            /\ filters' = filters
            /\ staging' = staging
            /\ geomInfoMgr' = geomInfoMgr
            /\ ~last'.vertexWrite.written
            /\ ~last'.indexWrite.written
            /\ ~last'.transformWrite.written
            /\ ~last'.geomInfoWrite.called ]_vars

\* a call rejected by the registry check after it moved all four counters
C7_Witness ==
    /\ IsAddPrimitive /\ last.rejectedBy = "geomInfo"
    /\ curVertexCount > last.preVertexCount
    /\ curIndexCount > last.preIndexCount
    /\ curPrimitiveCount > last.prePrimitiveCount
    /\ curTransformCount > last.preTransformCount

\* how far a call gets with the counters of a collector in which the rejected
\* calls of the cycle were never made
RollbackOutcome(l) ==
    IF l.preGeometryCount + 1 >= GetAmountInGlobalArray(l.geomFlags) THEN "group"
    ELSE IF VertexLimitReached(U32(l.rollbackVertIndex + l.vertexCount),
                               MaxVertexCount(l.geomFlags)) THEN "vertex"
    ELSE IF IndexLimitReached(U32(l.rollbackIndIndex + IndexCountOf(l))) THEN "index"
    ELSE "registry"

\* how far the call got
Outcome(l) ==
    IF l.rejectedBy \in {"group", "vertex", "index"} THEN l.rejectedBy ELSE "registry"

\* C8: a rejection rejects just that submission: every later AddPrimitive of
\* the cycle is accepted or rejected, and is given the vertex, index and
\* transform offsets, as if the rejected calls had never been made.
C8_RejectionIsolated ==
    IsAddPrimitive =>
        /\ Outcome(last) = RollbackOutcome(last)
        /\ last.accepted =>
               /\ last.vertIndex = last.rollbackVertIndex
               /\ last.indIndex = last.rollbackIndIndex
               /\ last.transformIndex = last.rollbackTransformIndex

\* the four rejection conditions of C9 on the last call, (d) given
NoneOfRejections(l, d) ==
    /\ ~(l.preGeometryCount + 1 >= GetAmountInGlobalArray(l.geomFlags))
    /\ ~(U32(l.vertIndex + l.vertexCount)
             >= (IF l.geomFlags \cap {CF_STATIC_NON_MOVABLE, CF_STATIC_MOVABLE} # {}
                 THEN MAX_STATIC_VERTEX_COUNT ELSE MAX_DYNAMIC_VERTEX_COUNT))
    /\ ~(U32(l.indIndex + IndexCountOf(l)) >= MAX_INDEXED_PRIMITIVE_COUNT * 3)
    /\ ~d

\* C9 as stated: AddPrimitive is accepted exactly when (a) the group is not
\* full, (b) the new vertex count is below the class maximum, (c) the new index
\* count is below MAX_INDEXED_PRIMITIVE_COUNT * 3 and (d) the registry's count
\* is below MAX_BOTTOM_LEVEL_GEOMETRIES_COUNT; so a call made at a registry
\* count of MAX_BOTTOM_LEVEL_GEOMETRIES_COUNT - 1 is accepted.
C9_AcceptedIffBelowLimits ==
    IsAddPrimitive =>
        (last.accepted <=>
            NoneOfRejections(last,
                last.geomInfoCount >= MAX_BOTTOM_LEVEL_GEOMETRIES_COUNT))

\* C9 amended: as C9, with (d) the registry's count plus one below
\* MAX_BOTTOM_LEVEL_GEOMETRIES_COUNT: a call made at a registry count of
\* MAX_BOTTOM_LEVEL_GEOMETRIES_COUNT - 1 is rejected, one made at
\* MAX_BOTTOM_LEVEL_GEOMETRIES_COUNT - 2 is accepted.
C9_AcceptedIffBelowLimitsPlusOne ==
    IsAddPrimitive =>
        (last.accepted <=>
            NoneOfRejections(last,
                last.geomInfoCount + 1 >= MAX_BOTTOM_LEVEL_GEOMETRIES_COUNT))

\* a call within the group, vertex and index limits rejected at a registry
\* count of MAX_BOTTOM_LEVEL_GEOMETRIES_COUNT - 1
C9_Witness ==
    /\ IsAddPrimitive /\ last.rejectedBy = "geomInfo"
    /\ last.geomInfoCount = MAX_BOTTOM_LEVEL_GEOMETRIES_COUNT - 1
    /\ NoneOfRejections(last, FALSE)

\* the three sequences of every bucket have one length
ParallelSequences ==
    \A f \in DOMAIN filters :
        /\ Len(filters[f].geometries) = Len(filters[f].rangeInfos)
        /\ Len(filters[f].rangeInfos) = Len(filters[f].primitiveCounts)

\* an accepted call appends one element to each sequence of the bucket of its
\* key and leaves the other buckets as they were
AppendsToOneBucket ==
    (last'.op = "AddPrimitive" /\ calls' = calls + 1 /\ last'.accepted) =>
        LET k == last'.geomFlags
        IN  /\ k \in DOMAIN filters
            /\ Len(filters'[k].geometries) = Len(filters[k].geometries) + 1
            /\ Len(filters'[k].rangeInfos) = Len(filters[k].rangeInfos) + 1
            /\ Len(filters'[k].primitiveCounts) = Len(filters[k].primitiveCounts) + 1
            /\ SubSeq(filters'[k].geometries, 1, Len(filters[k].geometries))
                   = filters[k].geometries
            /\ SubSeq(filters'[k].rangeInfos, 1, Len(filters[k].rangeInfos))
                   = filters[k].rangeInfos
            /\ SubSeq(filters'[k].primitiveCounts, 1, Len(filters[k].primitiveCounts))
                   = filters[k].primitiveCounts
            /\ \A f \in DOMAIN filters \ {k} : filters'[f] = filters[f]

\* C10: after every AddPrimitive, accepted or rejected, and after every Reset,
\* the geometries, the build ranges and the primitive counts of every bucket
\* have the same length; an accepted AddPrimitive appends one element to each
\* of the three sequences of the bucket of its key and changes no other bucket.
C10_BucketsInLockStep == []ParallelSequences /\ [][AppendsToOneBucket]_vars

\* a second geometry accepted into a bucket while another bucket holds one
C10_Witness ==
    /\ IsAddPrimitive /\ last.accepted
    /\ Len(filters[last.geomFlags].primitiveCounts) = 2
    /\ \E f \in DOMAIN filters \ {last.geomFlags} : Len(filters[f].rangeInfos) = 1

\* the state Reset leaves
AfterReset ==
    /\ curVertexCount = 0
    /\ curIndexCount = 0
    /\ curPrimitiveCount = 0
    /\ curTransformCount = 0
    /\ \A f \in DOMAIN filters : GetGeometryCount(f) = 0
    /\ ~ENABLED <<Reset>>_vars

\* what Reset leaves as it was
ResetKeeps ==
    last'.op = "Reset" =>
        /\ filtersFlags' = filtersFlags
        /\ DOMAIN filters' = DOMAIN filters
        /\ staging' = staging
        /\ geomInfoMgr' = geomInfoMgr

\* C11: after Reset the vertex, index, primitive and transform counters are 0
\* and every registered bucket holds no geometry; Reset leaves the registered
\* keys, the flags of the construction and the staging buffers as they were and
\* writes nothing to the registry; a second Reset changes nothing.
C11_ResetClears == [](last.op = "Reset" => AfterReset) /\ [][ResetKeeps]_vars

\* a Reset made after accepted and rejected calls moved all four counters
C11_Witness ==
    /\ last.op = "Reset"
    /\ staging.vertex >= 1 /\ staging.index >= 1
    /\ calls >= 2
    /\ geomInfoMgr < calls

\* the collector and the collector constructed at the start of the cycle hold
\* the same counters and the same number of geometries in every bucket
SameAsFresh ==
    /\ curVertexCount = cycle.fresh.vertexCount
    /\ curIndexCount = cycle.fresh.indexCount
    /\ curTransformCount = cycle.fresh.transformCount
    /\ \A k \in DOMAIN filters : GetGeometryCount(k) = cycle.fresh.geometryCount[k]

\* C12: whatever calls were made before a Reset, the primitives submitted after
\* it are given the vertex offset, the index offset, the transform slot and
\* the local index in their bucket that a collector just constructed with the
\* same filters gives them for the same calls and the same registry counts.
C12_ResetAsFresh ==
    /\ SameAsFresh
    /\ (IsAddPrimitive /\ last.accepted) =>
           /\ last.vertIndex = AlignUpBy3(last.fresh.vertexCount)
           /\ last.indIndex = AlignUpBy3(last.fresh.indexCount)
           /\ last.transformIndex = last.fresh.transformCount
           /\ last.localIndex = last.fresh.geometryCount[last.geomFlags]
           /\ last.geomInfoWrite.localIndex = last.localIndex

\* the first primitive accepted after a Reset that followed an accepted and a
\* rejected call
C12_Witness ==
    /\ IsAddPrimitive /\ last.accepted
    /\ cycle.calls = 1
    /\ calls = 3
    /\ staging.vertex = 2
    /\ last.vertIndex = 0 /\ last.transformIndex = 0 /\ last.localIndex = 0

\* the buckets whose key shares a bit with the mask
Intersecting(mask) == {k \in DOMAIN filters : k \cap mask # {}}

\* the answer of AreGeometriesEmpty is the emptiness of the buckets that share
\* a bit with the mask
EmptyAnswer ==
    last.op = "AreGeometriesEmpty" =>
        (last.result <=>
            \A k \in Intersecting(last.flags) : Len(filters[k].geometries) = 0)

\* the answer right after construction, a Reset or an accepted AddPrimitive
EmptyAnswerAfter ==
    last'.op = "AreGeometriesEmpty" =>
        /\ last.op \in {"construct", "Reset"} => last'.result
        /\ (last.op = "AddPrimitive" /\ last.accepted
            /\ last.geomFlags \cap last'.flags # {}) => ~last'.result

\* C13: AreGeometriesEmpty(mask) returns true exactly when every registered
\* bucket whose key shares a bit with mask holds no geometry: it returns true
\* for every mask after construction and after Reset and false right after an
\* accepted AddPrimitive whose key shares a bit with mask.
C13_EmptyIffNoGeometry == []EmptyAnswer /\ [][EmptyAnswerAfter]_vars

\* true is returned for a mask that shares a bit with a registered bucket while
\* another bucket holds a geometry
C13_Witness ==
    /\ last.op = "AreGeometriesEmpty" /\ last.result
    /\ Intersecting(last.flags) # {}
    /\ \E k \in DOMAIN filters : Len(filters[k].geometries) > 0

\* the copies and the barriers recorded by the last operation
Copies == {i \in 1..Len(last.cmds) : last.cmds[i].cmd = "vkCmdCopyBuffer"}

PipelineBarriers == {i \in 1..Len(last.cmds) : last.cmds[i].cmd = "vkCmdPipelineBarrier"}

\* C14: CopyFromStaging called when no AddPrimitive was made since
\* construction or the last Reset records no copy and no barrier and returns
\* false.
C14_NothingToCopy ==
    (last.op = "CopyFromStaging" /\ cycle.calls = 0) =>
        /\ last.cmds = <<>>
        /\ ~last.result

\* CopyFromStaging called after a Reset that followed accepted primitives
C14_Witness ==
    /\ last.op = "CopyFromStaging" /\ cycle.calls = 0
    /\ staging.vertex > 0 /\ staging.index > 0
    /\ ~last.result

\* the copies recorded from one staging buffer to one device buffer
CopiesOf(src, dst) ==
    {i \in Copies : last.cmds[i].srcBuffer = src /\ last.cmds[i].dstBuffer = dst}

\* one copy of count elements from offset 0 to offset 0 when count is not 0,
\* no copy when it is
CopiedIffCounted(src, dst, count, elementSize) ==
    /\ Cardinality(CopiesOf(src, dst)) = (IF count # 0 THEN 1 ELSE 0)
    /\ \A i \in CopiesOf(src, dst) :
           /\ last.cmds[i].srcOffset = 0
           /\ last.cmds[i].dstOffset = 0
           /\ last.cmds[i].size = count * elementSize

\* C15: CopyFromStaging records a copy from the vertex, index and transform
\* staging buffer to its device buffer exactly when the buffer's counter is
\* not 0, from offset 0 to offset 0 and of the counter times the element size,
\* and returns true exactly when it recorded a copy.
C15_CopiesFollowCounters ==
    last.op = "CopyFromStaging" =>
        /\ CopiedIffCounted("stagingVertBuffer", "vertBuffer",
                            curVertexCount, SizeofShVertex)
        /\ CopiedIffCounted("stagingIndexBuffer", "indexBuffer",
                            curIndexCount, SizeofUint32)
        /\ CopiedIffCounted("stagingTransformsBuffer", "transformsBuffer",
                            curTransformCount, SizeofTransform)
        /\ Cardinality(Copies)
               = Cardinality(CopiesOf("stagingVertBuffer", "vertBuffer"))
                 + Cardinality(CopiesOf("stagingIndexBuffer", "indexBuffer"))
                 + Cardinality(CopiesOf("stagingTransformsBuffer", "transformsBuffer"))
        /\ last.result <=> Copies # {}

\* vertices and transforms are copied while the index counter is 0
C15_Witness ==
    /\ last.op = "CopyFromStaging" /\ last.result
    /\ curIndexCount = 0
    /\ Cardinality(Copies) = 2
    /\ cycle.accepted >= 2

\* the bytes of a staging buffer up to the end of the last range an accepted
\* primitive of the cycle wrote
WrittenBytes(buffer) ==
    CASE buffer = "vertBuffer" -> cycle.writtenVertexEnd * SizeofShVertex
      [] buffer = "indexBuffer" -> cycle.writtenIndexEnd * SizeofUint32
      [] buffer = "transformsBuffer" -> cycle.writtenTransformEnd * SizeofTransform

\* C16: in every reachable state, after accepted and rejected AddPrimitive
\* calls, every copy recorded by CopyFromStaging is no larger than the buffer
\* and ends no later than the last range an accepted primitive of the cycle
\* wrote into the staging buffer.
C16_CopyCoversWritten ==
    last.op = "CopyFromStaging" =>
        \A i \in Copies :
            /\ last.cmds[i].size <= GetSize(last.cmds[i].dstBuffer)
            /\ last.cmds[i].size <= WrittenBytes(last.cmds[i].dstBuffer)

\* the first half of C16 alone: no copy is larger than its buffer
CopyWithinBuffer ==
    last.op = "CopyFromStaging" =>
        \A i \in Copies : last.cmds[i].size <= GetSize(last.cmds[i].dstBuffer)

\* the device buffers the memory barriers of command i cover
BarrierBuffers(i) ==
    {last.cmds[i].barriers[j].buffer : j \in 1..Len(last.cmds[i].barriers)}

\* the device buffers among bs that the operation copied to
CopiedTo(bs) == {last.cmds[i].dstBuffer : i \in Copies} \cap bs

\* the pipeline barriers that cover one of the buffers bs
BarriersOn(bs) == {i \in PipelineBarriers : BarrierBuffers(i) \cap bs # {}}

\* every memory barrier of command i moves its buffer from access src to
\* access dst, from offset 0 and over the size of the copy to that buffer
BarrierMatchesCopy(i, src, dst) ==
    \A j \in 1..Len(last.cmds[i].barriers) :
        LET br == last.cmds[i].barriers[j]
        IN  /\ br.srcAccessMask = src
            /\ br.dstAccessMask = dst
            /\ br.offset = 0
            /\ \E c \in Copies : /\ last.cmds[c].dstBuffer = br.buffer
                                 /\ last.cmds[c].size = br.size

\* C17: within one CopyFromStaging every copy is recorded before any
\* barrier; one pipeline barrier covers exactly those of the vertex and index
\* buffers that were copied, from transfer-write to shader-read|shader-write;
\* after it a separate barrier of the transform buffer, from transfer-write to
\* acceleration-structure-read, is recorded exactly when the transforms were
\* copied; the size of every barrier is the size of the copy to its buffer.
C17_CopiesThenBarriers ==
    last.op = "CopyFromStaging" =>
        LET vi == BarriersOn({"vertBuffer", "indexBuffer"})
            trn == BarriersOn({"transformsBuffer"})
        IN  /\ \A c \in Copies, b \in PipelineBarriers : c < b
            /\ PipelineBarriers = vi \cup trn
            /\ vi \cap trn = {}
            /\ Cardinality(vi)
                   = (IF CopiedTo({"vertBuffer", "indexBuffer"}) # {} THEN 1 ELSE 0)
            /\ \A b \in vi :
                   /\ BarrierBuffers(b) = CopiedTo({"vertBuffer", "indexBuffer"})
                   /\ Len(last.cmds[b].barriers) = Cardinality(BarrierBuffers(b))
                   /\ BarrierMatchesCopy(b, {"TRANSFER_WRITE"},
                                         {"SHADER_READ", "SHADER_WRITE"})
            /\ Cardinality(trn)
                   = (IF CopiedTo({"transformsBuffer"}) # {} THEN 1 ELSE 0)
            /\ \A b \in trn :
                   /\ Len(last.cmds[b].barriers) = 1
                   /\ BarrierMatchesCopy(b, {"TRANSFER_WRITE"},
                                         {"ACCELERATION_STRUCTURE_READ"})
                   /\ \A a \in vi : a < b

\* three copies, then the barrier of vertices and indices, then the barrier of
\* the transforms
C17_Witness ==
    /\ last.op = "CopyFromStaging"
    /\ Len(last.cmds) = 5
    /\ Cardinality(Copies) = 3
    /\ Len(last.cmds[4].barriers) = 2
    /\ BarrierBuffers(5) = {"transformsBuffer"}

\* the memory barriers of the pipeline barriers in cmds
MemoryBarriersOf(cmds) ==
    UNION { { cmds[i].barriers[j] : j \in 1..Len(cmds[i].barriers) } :
            i \in 1..Len(cmds) }

\* those that cover the vertex or the index buffer
VertexIndexMemoryBarriers(cmds) ==
    {br \in MemoryBarriersOf(cmds) : br.buffer \in {"vertBuffer", "indexBuffer"}}

\* what InsertVertexPreprocessFinishBarrier records
FinishBarrierRecorded ==
    last.op = "InsertVertexPreprocessFinishBarrier" =>
        LET expected ==
                (IF curVertexCount # 0
                 THEN {[buffer |-> "vertBuffer", size |-> curVertexCount * SizeofShVertex]}
                 ELSE {})
                \cup (IF curIndexCount # 0
                      THEN {[buffer |-> "indexBuffer", size |-> curIndexCount * SizeofUint32]}
                      ELSE {})
        IN  IF expected = {}
            THEN last.cmds = <<>>
            ELSE /\ Len(last.cmds) = 1
                 /\ last.cmds[1].cmd = "vkCmdPipelineBarrier"
                 /\ Len(last.cmds[1].barriers) = Cardinality(expected)
                 /\ {[buffer |-> br.buffer, size |-> br.size] :
                         br \in MemoryBarriersOf(last.cmds)} = expected
                 /\ \A br \in MemoryBarriersOf(last.cmds) :
                        /\ br.srcAccessMask = {"SHADER_READ", "SHADER_WRITE"}
                        /\ br.dstAccessMask
                               = {"ACCELERATION_STRUCTURE_READ", "SHADER_READ"}
                        /\ br.offset = 0

\* InsertVertexPreprocessFinishBarrier right after CopyFromStaging covers the
\* buffers and sizes of its vertex/index barrier and starts from the access
\* that barrier ended with
FinishBarrierAfterCopy ==
    (last.op = "CopyFromStaging"
     /\ last'.op = "InsertVertexPreprocessFinishBarrier") =>
        LET before == VertexIndexMemoryBarriers(last.cmds)
            after == MemoryBarriersOf(last'.cmds)
        IN  /\ {[buffer |-> br.buffer, size |-> br.size] : br \in after}
                   = {[buffer |-> br.buffer, size |-> br.size] : br \in before}
            /\ \A a \in after : \E b \in before :
                   /\ b.buffer = a.buffer
                   /\ a.srcAccessMask = b.dstAccessMask

\* C18: InsertVertexPreprocessFinishBarrier records one pipeline barrier that
\* moves the vertex buffer region, if the vertex counter is not 0, and the
\* index buffer region, if the index counter is not 0, from
\* shader-read|shader-write to acceleration-structure-read|shader-read, and
\* records nothing when both counters are 0; called right after
\* CopyFromStaging it covers the buffers and byte sizes of CopyFromStaging's
\* vertex/index barrier, and its source access is that barrier's destination
\* access.
C18_FinishBarrier == []FinishBarrierRecorded /\ [][FinishBarrierAfterCopy]_vars

\* the barrier recorded after a CopyFromStaging covers the vertex buffer only
C18_Witness ==
    /\ last.op = "InsertVertexPreprocessFinishBarrier"
    /\ Len(last.cmds) = 1
    /\ Len(last.cmds[1].barriers) = 1
    /\ curIndexCount = 0
    /\ last.prev = "CopyFromStaging"

\* the last call submitted a primitive without indices
NonIndexed(l) == l.indexCount = 0 \/ ~l.hasIndices

\* the record, the geometry and the index staging write of an accepted call
IndexFieldsOfAccepted ==
    (IsAddPrimitive /\ last.accepted) =>
        LET geomInfo == last.geomInfoWrite.geomInfo
        IN  /\ NonIndexed(last) =>
                   /\ geomInfo.baseIndexIndex = UINT32_MAX
                   /\ geomInfo.indexCount = UINT32_MAX
                   /\ ~last.indexWrite.written
                   /\ LastGeometry.indexType = "NONE"
            /\ ~NonIndexed(last) =>
                   /\ geomInfo.baseIndexIndex = last.indIndex
                   /\ last.indIndex % 3 = 0
                   /\ last.indIndex \in {U32(last.preIndexCount + d) : d \in 0..2}
                   /\ geomInfo.indexCount = last.indexCount
                   /\ LastGeometry.indexType = "UINT32"
            /\ (NonIndexed(last) /\ last.vertexCount = 3 /\ cycle.calls = 1) =>
                   /\ curVertexCount = 3
                   /\ curIndexCount = 0
                   /\ Len(filters[last.geomFlags].geometries) = 1

\* an accepted call without indices makes no copy into the index staging buffer
NoIndexWrite ==
    (last'.op = "AddPrimitive" /\ last'.accepted /\ NonIndexed(last')) =>
        staging'.index = staging.index

\* C19: for an accepted primitive without indices (indexCount 0 or a null
\* index pointer) the record handed to the registry has baseIndexIndex and
\* indexCount equal to UINT32_MAX, nothing is written to the index staging
\* buffer and the geometry has index type NONE; a single such primitive of 3
\* vertices submitted to an empty collector leaves a vertex count of 3, an
\* index count of 0 and one geometry in its bucket.  For an indexed primitive
\* baseIndexIndex is the aligned index offset and indexCount the primitive's.
C19_NonIndexedSentinel == []IndexFieldsOfAccepted /\ [][NoIndexWrite]_vars

\* a primitive with an index count but a null index pointer accepted after an
\* indexed one
C19_Witness ==
    /\ IsAddPrimitive /\ last.accepted
    /\ ~last.hasIndices /\ last.indexCount # 0
    /\ staging.index >= 1
    /\ last.preIndexCount % 3 # 0

\* the positions of a step among the steps of the last call
StepsAt(name) == {i \in 1..Len(last.steps) : last.steps[i] = name}

\* the WriteGeomInfo of an accepted call: made once, after the three pushes,
\* with the frame index and the key of the call and the number of geometries
\* its bucket held before
WriteOfAccepted ==
    (IsAddPrimitive /\ last.accepted) =>
        LET w == last.geomInfoWrite
        IN  /\ w.called
            /\ Cardinality(StepsAt("WriteGeomInfo")) = 1
            /\ \A p \in {"PushGeometry", "PushRangeInfo", "PushPrimitiveCount"} :
                   /\ Cardinality(StepsAt(p)) = 1
                   /\ \A i \in StepsAt(p), j \in StepsAt("WriteGeomInfo") : i < j
            /\ w.frameIndex = last.frameIndex
            /\ w.flags = last.geomFlags
            /\ w.localIndex = last.preGeometryCount
            /\ w.localIndex = Len(filters[last.geomFlags].geometries) - 1

\* the local indices handed out for every bucket in the cycle are 0, 1, 2, ...
LocalIndicesInOrder ==
    \A k \in DOMAIN filters :
        /\ Len(cycle.localIndices[k]) = Len(filters[k].geometries)
        /\ \A i \in 1..Len(cycle.localIndices[k]) : cycle.localIndices[k][i] = i - 1

\* the number of WriteGeomInfo calls an AddPrimitive makes
WritesPerCall ==
    (last'.op = "AddPrimitive" /\ calls' = calls + 1) =>
        /\ last'.accepted => geomInfoMgr' = geomInfoMgr + 1
        /\ ~last'.accepted =>
               /\ geomInfoMgr' = geomInfoMgr
               /\ ~last'.geomInfoWrite.called
               /\ last'.steps = <<>>

\* C20: every accepted AddPrimitive calls WriteGeomInfo exactly once, after
\* the three appends to the bucket, with the frame index and the key of the
\* call and with the number of geometries the bucket held before the call as
\* local index, so the local indices of one bucket in a cycle are 0, 1, 2, ...
\* without gap or repeat; a rejected AddPrimitive never calls WriteGeomInfo.
C20_WriteGeomInfoOnce ==
    /\ [](WriteOfAccepted /\ LocalIndicesInOrder)
    /\ [][WritesPerCall]_vars

\* the third geometry of a bucket is given local index 2 in a frame other than
\* that of an earlier call
C20_Witness ==
    /\ IsAddPrimitive /\ last.accepted
    /\ last.geomInfoWrite.localIndex = 2
    /\ last.geomInfoWrite.frameIndex = 1
    /\ cycle.localIndices[last.geomFlags] = <<0, 1, 2>>

\* the counters, the buckets and the staging contents of the source collector
SourceState ==
    <<curVertexCount, curIndexCount, curPrimitiveCount, curTransformCount,
      filters, staging>>

\* the counters, the buckets and the staging contents of collector v
StateOf(v) ==
    <<v.curVertexCount, v.curIndexCount, v.curPrimitiveCount, v.curTransformCount,
      v.filters, v.staging>>

\* the staging buffers a collector holds
StagingBuffersOf(c) ==
    {c.stagingVertBuffer, c.stagingIndexBuffer, c.stagingTransformsBuffer}

\* what a shared view holds: the keys and the device buffers of its source,
\* staging buffers of its own, and, when it has just been constructed, four
\* counters at 0 and empty buckets
ViewOfSource ==
    view.exists =>
        /\ view.filtersFlags = filtersFlags
        /\ DOMAIN view.filters = DOMAIN filters
        /\ view.vertBuffer = Source.vertBuffer
        /\ view.indexBuffer = Source.indexBuffer
        /\ view.transformsBuffer = Source.transformsBuffer
        /\ Cardinality(StagingBuffersOf(view) \cup StagingBuffersOf(Source)) = 6
        /\ view.op = "construct" =>
               /\ view.curVertexCount = 0
               /\ view.curIndexCount = 0
               /\ view.curPrimitiveCount = 0
               /\ view.curTransformCount = 0
               /\ \A k \in DOMAIN view.filters : view.filters[k] = EmptyFilter
               /\ view.staging = [vertex |-> 0, index |-> 0, transform |-> 0]

\* a step changes the counters, buckets and staging contents of at most one of
\* the two collectors, and the construction of the view changes none of the
\* source
OneCollectorChanges ==
    /\ StateOf(view') # StateOf(view) => SourceState' = SourceState
    /\ SourceState' # SourceState => StateOf(view') = StateOf(view)
    /\ view'.op # view.op => SourceState' = SourceState
    /\ (last' # last \/ cycle' # cycle) => view' = view

\* C21: a collector constructed as a shared view starts with the four counters
\* at 0 and every bucket empty, has the registered keys and the three device
\* buffers of its source and staging buffers of its own; an AddPrimitive, a
\* Reset or a CopyFromStaging on one of the two collectors leaves the counters,
\* the buckets and the staging contents of the other as they were.
C21_SharedViewIndependent == []ViewOfSource /\ [][OneCollectorChanges]_vars

\* a primitive accepted by a view that was constructed from a source holding
\* primitives, the two collectors with different counters and staging contents
C21_Witness ==
    /\ view.exists /\ view.op = "AddPrimitive" /\ view.result
    /\ curVertexCount > 0 /\ staging.vertex >= 1
    /\ view.curVertexCount # curVertexCount
    /\ view.staging # staging
    /\ view.curTransformCount = 1

\* the four counters
Counters == <<curVertexCount, curIndexCount, curPrimitiveCount, curTransformCount>>

\* no counter is smaller after the step than before it
CountersNotDecreased ==
    \A i \in 1..4 : Counters'[i] >= Counters[i]

\* operations other than AddPrimitive and Reset leave the counters alone
OnlyAddPrimitiveAndResetCount ==
    (last' # last /\ last'.op \notin {"AddPrimitive", "Reset"}) =>
        Counters' = Counters

\* C22: from one state to the next each of the vertex, index, primitive and
\* transform counters is non-decreasing except across Reset, which sets the
\* four to 0, and no operation other than AddPrimitive and Reset changes a
\* counter.
C22_CountersMonotone ==
    [][ /\ last'.op # "Reset" => CountersNotDecreased
        /\ last'.op = "Reset" => Counters' = <<0, 0, 0, 0>>
        /\ OnlyAddPrimitiveAndResetCount ]_vars

\* the second half of C22 alone, and the Reset
C22_OnlyAddPrimitiveAndReset ==
    [][ /\ last'.op = "Reset" => Counters' = <<0, 0, 0, 0>>
        /\ OnlyAddPrimitiveAndResetCount ]_vars

\* q is the sequence p, or p with entries appended
IsPrefix(p, q) == Len(p) <= Len(q) /\ SubSeq(q, 1, Len(p)) = p

\* for every registered key the three getters return one entry for each
\* primitive accepted with the key in the cycle, in the order of acceptance,
\* entry i made from the primitive that was given local index i
GettersFollowAcceptance ==
    \A k \in DOMAIN filters :
        LET accepted == cycle.primitives[k]
        IN  /\ Len(GetASGeometries(k)) = Len(accepted)
            /\ Len(GetASBuildRangeInfos(k)) = Len(accepted)
            /\ Len(GetPrimitiveCounts(k)) = Len(accepted)
            /\ \A n \in 1..Len(accepted) :
                   LET a == accepted[n]
                       triangles == IF a.indexCount # 0 /\ a.hasIndices
                                    THEN a.indexCount \div 3
                                    ELSE a.vertexCount \div 3
                   IN  /\ a.localIndex = n - 1
                       /\ GetASGeometries(k)[n].vertexData.offset
                              = a.vertIndex * SizeofShVertex
                       /\ GetASGeometries(k)[n].maxVertex = a.vertexCount
                       /\ GetASGeometries(k)[n].transformData.offset
                              = a.transformIndex * SizeofTransform
                       /\ GetASBuildRangeInfos(k)[n].primitiveCount = triangles
                       /\ GetPrimitiveCounts(k)[n] = triangles

\* what the getters returned before the step is the beginning of what they
\* return after it, unless the step is a Reset
GettersOnlyGrow ==
    last'.op # "Reset" =>
        \A k \in DOMAIN filters :
            /\ IsPrefix(GetASGeometries(k), GetASGeometries(k)')
            /\ IsPrefix(GetASBuildRangeInfos(k), GetASBuildRangeInfos(k)')
            /\ IsPrefix(GetPrimitiveCounts(k), GetPrimitiveCounts(k)')

\* C23: for every registered key GetASGeometries, GetASBuildRangeInfos and
\* GetPrimitiveCounts return exactly one entry per AddPrimitive accepted with
\* that key since construction or the last Reset, in the order of acceptance,
\* entry i belonging to the primitive that was given local index i; entries are
\* never removed or reordered except by Reset.
C23_GettersInOrder == []GettersFollowAcceptance /\ [][GettersOnlyGrow]_vars

\* a bucket holds two different primitives, one accepted before and one after
\* a rejected call
C23_Witness ==
    /\ cycle.rejectedBy # {}
    /\ IsAddPrimitive /\ last.accepted
    /\ Len(GetASGeometries(last.geomFlags)) = 2
    /\ Len(GetPrimitiveCounts(last.geomFlags)) = 2
    /\ GetASGeometries(last.geomFlags)[1].maxVertex
           # GetASGeometries(last.geomFlags)[2].maxVertex
    /\ GetASGeometries(last.geomFlags)[2].transformData.offset = 2 * SizeofTransform

\* the operations that assert that their key is registered
AssertingOperations == Getters \cup {"AddPrimitive"}

\* the key the last operation was called with
KeyOf(l) == IF l.op = "AddPrimitive" THEN l.geomFlags ELSE l.flags

\* the buckets registered are those of the group combinations whose bits are
\* all among the flags of the construction
RegisteredKeys ==
    DOMAIN filters = {g \in IterateOverFlags : g \subseteq filtersFlags}

\* the assertion of an operation fails exactly when its key is not registered
AssertionIffUnregistered ==
    last.op \in AssertingOperations =>
        /\ (last.rejectedBy = "assert") <=> (KeyOf(last) \notin DOMAIN filters)
        /\ (last.assertion # "none") <=> (KeyOf(last) \notin DOMAIN filters)

\* nothing of the collector is written in a step whose assertion fails
AssertionBeforeWrites ==
    (last'.rejectedBy = "assert" /\ calls' = calls + 1) =>
        /\ Counters' = Counters
        /\ filters' = filters
        /\ staging' = staging
        /\ geomInfoMgr' = geomInfoMgr
        /\ ~last'.accepted
        /\ last'.steps = <<>>

\* C24: a bucket is registered for a key exactly when the key is one of the
\* enumerated group combinations and all its bits are among the flags of the
\* construction; AddPrimitive with a key that is not registered, and a query
\* with such a key, violate the assertion on the key, and in AddPrimitive the
\* assertion is reached before a counter, a bucket or a staging buffer is
\* written.
C24_UnregisteredKeyAsserts ==
    /\ [](RegisteredKeys /\ AssertionIffUnregistered)
    /\ [][AssertionBeforeWrites]_vars

\* AddPrimitive fails its assertion for a key whose bits are all among the
\* flags of the construction, on a collector that holds primitives
C24_Witness ==
    /\ IsAddPrimitive /\ last.rejectedBy = "assert"
    /\ last.geomFlags \subseteq filtersFlags
    /\ curVertexCount > 0 /\ staging.vertex > 0

\* the build range and the primitive count the last accepted call pushed
LastRangeInfo ==
    filters[last.geomFlags].rangeInfos[Len(filters[last.geomFlags].rangeInfos)]

LastPrimitiveCount ==
    filters[last.geomFlags].primitiveCounts[Len(filters[last.geomFlags].primitiveCounts)]

\* C25: for every accepted primitive the geometry descriptor, the build range
\* and the record handed to the registry agree: the descriptor's vertex
\* address is the vertex buffer's plus the aligned vertex offset times the
\* vertex size plus the offset of the position, its index address (indexed
\* primitives only) the index buffer's plus the aligned index offset times 4,
\* its transform address the transform buffer's plus the transform slot times
\* the matrix size; baseVertexIndex and baseIndexIndex of the record are those
\* offsets; the build range has the triangle count pushed to the bucket as
\* primitiveCount and its three offsets 0; the geometry is flagged OPAQUE
\* exactly when the key has the opaque pass-through bit.
C25_DescriptorsAgree ==
    (IsAddPrimitive /\ last.accepted) =>
        LET geom == LastGeometry
            geomInfo == last.geomInfoWrite.geomInfo
            indexed == last.indexCount # 0 /\ last.hasIndices
        IN  /\ geomInfo.baseVertexIndex = last.vertexWrite.offset
            /\ geomInfo.baseVertexIndex % 3 = 0
            /\ geom.vertexData.buffer = "vertBuffer"
            /\ geom.vertexData.offset
                   = geomInfo.baseVertexIndex * SizeofShVertex + OffsetofPosition
            /\ geom.vertexStride = SizeofShVertex
            /\ geom.transformData.buffer = "transformsBuffer"
            /\ geom.transformData.offset = last.preTransformCount * SizeofTransform
            /\ indexed =>
                   /\ geomInfo.baseIndexIndex = last.indexWrite.offset
                   /\ geomInfo.baseIndexIndex % 3 = 0
                   /\ geom.indexData.buffer = "indexBuffer"
                   /\ geom.indexData.offset = geomInfo.baseIndexIndex * SizeofUint32
            /\ ~indexed => geom.indexData.buffer = "null"
            /\ LastRangeInfo.primitiveCount = LastPrimitiveCount
            /\ LastPrimitiveCount
                   = (IF indexed THEN last.indexCount \div 3
                      ELSE last.vertexCount \div 3)
            /\ LastRangeInfo.primitiveOffset = 0
            /\ LastRangeInfo.firstVertex = 0
            /\ LastRangeInfo.transformOffset = 0
            /\ (geom.flags = "OPAQUE") <=> (PT_OPAQUE \in last.geomFlags)

\* an indexed primitive with an alpha-tested key accepted at offsets other
\* than 0, its transform slot beyond the geometries held
C25_Witness ==
    /\ IsAddPrimitive /\ last.accepted /\ last.useIndices
    /\ PT_OPAQUE \notin last.geomFlags
    /\ last.vertIndex > 0 /\ last.indIndex > 0
    /\ last.transformIndex = 2
    /\ LastGeometry.flags # "OPAQUE"
    /\ cycle.accepted = 2

\* C26: an AddPrimitive rejected by the geometry-count check of its filter
\* group leaves the whole collector as it was: the four counters, every bucket
\* and the staging buffers are as before the call, and the registry is neither
\* asked for its count nor written to.
C26_GroupRejectionChangesNothing ==
    [][ (last'.op = "AddPrimitive" /\ calls' = calls + 1
         /\ last'.rejectedBy = "group") =>
            /\ curVertexCount' = curVertexCount
            /\ curIndexCount' = curIndexCount
            /\ curPrimitiveCount' = curPrimitiveCount
            /\ curTransformCount' = curTransformCount
            /\ filters' = filters
            /\ staging' = staging
            /\ geomInfoMgr' = geomInfoMgr
            /\ ~last'.geomInfoWrite.called
            /\ last'.geomInfoCount \notin GeomInfoCounts
            /\ ~last'.vertexWrite.written
            /\ ~last'.indexWrite.written
            /\ ~last'.transformWrite.written ]_vars

\* an indexed primitive rejected because its group is full, on a collector
\* whose counters are not 0
C26_Witness ==
    /\ IsAddPrimitive /\ last.rejectedBy = "group"
    /\ last.useIndices /\ last.vertexCount > 0
    /\ curVertexCount > 0 /\ curIndexCount > 0 /\ curTransformCount = 2
    /\ curVertexCount = last.preVertexCount

\* the primitives accepted in the cycle, each with its key and its position
\* among those of the key
AcceptedPrimitives ==
    { <<k, n>> : k \in DOMAIN filters, n \in 1..MaxCalls } \cap
    UNION { { <<k, n>> : n \in 1..Len(cycle.primitives[k]) } : k \in DOMAIN filters }

PrimitiveAt(p) == cycle.primitives[p[1]][p[2]]

\* the ranges [from1, from1 + count1) and [from2, from2 + count2) share no element
Disjoint(from1, count1, from2, count2) ==
    from1 + count1 <= from2 \/ from2 + count2 <= from1

IsIndexed(a) == a.indexCount # 0 /\ a.hasIndices

\* the staging ranges of two accepted primitives do not overlap
RangesApart(a, b) ==
    /\ Disjoint(a.vertIndex, a.vertexCount, b.vertIndex, b.vertexCount)
    /\ (IsIndexed(a) /\ IsIndexed(b)) =>
           Disjoint(a.indIndex, a.indexCount, b.indIndex, b.indexCount)
    /\ a.transformIndex # b.transformIndex

\* C27: within one cycle the staging ranges of distinct accepted primitives do
\* not overlap: their vertex ranges [vertexOffset, vertexOffset + vertexCount)
\* are pairwise disjoint, their index ranges [indexOffset, indexOffset +
\* indexCount) are pairwise disjoint and their transform slots are pairwise
\* distinct, also when rejected calls were made in between.
C27_RangesDisjoint ==
    \A p, q \in AcceptedPrimitives :
        p # q => RangesApart(PrimitiveAt(p), PrimitiveAt(q))

\* no primitive accepted in the cycle made a counter wrap around
NoAcceptedWrap ==
    \A p \in AcceptedPrimitives :
        /\ PrimitiveAt(p).vertIndex + PrimitiveAt(p).vertexCount <= UINT32_MAX
        /\ PrimitiveAt(p).indIndex + PrimitiveAt(p).indexCount <= UINT32_MAX

\* C27 for the cycles in which no accepted primitive wrapped a counter
RangesDisjointWithoutWrap == NoAcceptedWrap => C27_RangesDisjoint

\* the vertex buffer has room for the vertices of every registered class
VertexBufferLargeEnough ==
    \A k \in DOMAIN filters :
        GetSize("vertBuffer")
            >= (IF k \cap {CF_STATIC_NON_MOVABLE, CF_STATIC_MOVABLE} # {}
                THEN MAX_STATIC_VERTEX_COUNT
                ELSE MAX_DYNAMIC_VERTEX_COUNT) * SizeofShVertex

\* the assertion of CopyDataToStaging, as the code computes it, holds in
\* every accepted call
CopyAssertionHolds ==
    (VertexBufferLargeEnough /\ IsAddPrimitive /\ last.accepted) =>
        /\ last.assertion = "none"
        /\ ((last.vertIndex + last.vertexCount) % (UINT32_MAX + 1)) * SizeofShVertex
               < GetSize("vertBuffer")

\* C28: provided the vertex buffer has room for the maximum vertex count of
\* every registered frequency class, every staging write of an accepted
\* AddPrimitive is in bounds: the assertion of CopyDataToStaging holds, the
\* vertices written end inside the vertex staging buffer, and the indices
\* written end at or before element MAX_INDEXED_PRIMITIVE_COUNT * 3.
C28_StagingWritesInBounds ==
    (VertexBufferLargeEnough /\ IsAddPrimitive /\ last.accepted) =>
        /\ last.assertion = "none"
        /\ last.vertexWrite.written
        /\ (last.vertexWrite.offset + last.vertexWrite.count) * SizeofShVertex
               < GetSize("vertBuffer")
        /\ last.indexWrite.written =>
               last.indexWrite.offset + last.indexWrite.count
                   <= MAX_INDEXED_PRIMITIVE_COUNT * 3

\* C28 for the accepted calls whose counts do not wrap a counter
WritesInBoundsWithoutWrap ==
    (/\ last.vertIndex + last.vertexCount <= UINT32_MAX
     /\ last.indIndex + last.indexCount <= UINT32_MAX)
        => C28_StagingWritesInBounds

\* C29: whenever an accepted AddPrimitive writes a transform into the
\* transform staging buffer, its slot, the transform counter before the call,
\* is smaller than MAX_BOTTOM_LEVEL_GEOMETRIES_COUNT, the capacity of the
\* buffer, whatever accepted and rejected calls came before, whatever the
\* frame index of each call and whatever count the registry reports.
C29_TransformSlotInBounds ==
    (IsAddPrimitive /\ last.accepted /\ last.transformWrite.written) =>
        /\ last.transformWrite.offset = last.preTransformCount
        /\ last.transformWrite.offset < MAX_BOTTOM_LEVEL_GEOMETRIES_COUNT
        /\ (last.transformWrite.offset + last.transformWrite.count) * SizeofTransform
               <= TRANSFORM_BUFFER_SIZE

\* the transform slot of an accepted call is the transform counter before it
TransformSlotIsCounter ==
    (IsAddPrimitive /\ last.accepted) =>
        /\ last.transformWrite.written
        /\ last.transformWrite.offset = last.preTransformCount
        /\ last.transformWrite.count = 1

\* a step in which AddPrimitive is accepted
AcceptedStep == cycle'.accepted = cycle.accepted + 1

\* no AddPrimitive is accepted in a cycle after the index check rejected one
IndexFailureSticky == "index" \in cycle.rejectedBy => ~AcceptedStep

\* no AddPrimitive of a class with the same or a smaller vertex maximum is
\* accepted in a cycle after the vertex check rejected one
VertexFailureSticky ==
    AcceptedStep => MaxVertexCount(last'.geomFlags) > cycle.rejectedVertexMax

\* an AddPrimitive whose counts are below the limits and for which the
\* registry has room is accepted when it is the first call after Reset
AcceptedAfterReset ==
    ( /\ last.op = "Reset"
      /\ last'.op = "AddPrimitive"
      /\ last'.rejectedBy # "assert"
      /\ last'.vertexCount < MaxVertexCount(last'.geomFlags)
      /\ IndexCountOf(last') < MAX_INDEXED_PRIMITIVE_COUNT * 3
      /\ ~GeomInfoLimitReached(last'.geomInfoCount) ) => AcceptedStep

\* C30: capacity failure is sticky within a cycle: after a rejection by the
\* index check every later AddPrimitive is rejected until Reset, after a
\* rejection by the vertex check every later AddPrimitive of a class with the
\* same or a smaller vertex maximum is rejected until Reset, and after Reset
\* primitives are accepted again.
C30_CapacityFailureSticky ==
    [][IndexFailureSticky /\ VertexFailureSticky /\ AcceptedAfterReset]_vars

\* the part of C30 about Reset
AcceptedAgainAfterReset == [][AcceptedAfterReset]_vars

\* an accepted call whose counts do not wrap a counter starts from counters
\* below the limits of its checks: after a capacity failure, only a wrapped
\* counter or Reset lets a call of the failed kind be accepted
StickyWithoutWrap ==
    [][ ( /\ AcceptedStep
          /\ last'.vertIndex >= curVertexCount
          /\ last'.indIndex >= curIndexCount
          /\ last'.vertIndex + last'.vertexCount <= UINT32_MAX
          /\ last'.indIndex + IndexCountOf(last') <= UINT32_MAX )
        => /\ curVertexCount < MaxVertexCount(last'.geomFlags)
           /\ curIndexCount < MAX_INDEXED_PRIMITIVE_COUNT * 3
           /\ curVertexCount' >= curVertexCount
           /\ curIndexCount' >= curIndexCount ]_vars

\* C31: in every reachable state GetAllGeometryCount, the number of
\* geometries over all buckets, is at most the transform counter, and the two
\* are equal exactly when no AddPrimitive since construction or the last Reset
\* was rejected by the vertex, index or registry check.
C31_GeometryCountAtMostTransforms ==
    /\ GetAllGeometryCount <= curTransformCount
    /\ (GetAllGeometryCount = curTransformCount)
           <=> (cycle.rejectedBy \cap BoundReasons = {})

\* two accepted primitives, one of them alone in its bucket, and one
\* primitive rejected by a capacity check
C31_Witness ==
    /\ GetAllGeometryCount = 2
    /\ curTransformCount = 3
    /\ \E k \in DOMAIN filters : GetGeometryCount(k) = 1
    /\ cycle.rejectedBy \cap BoundReasons # {}

\* with rejections by the group check only, the two counts are equal
C31_WitnessEqual ==
    /\ GetAllGeometryCount = curTransformCount
    /\ curTransformCount >= 1
    /\ cycle.rejectedBy = {"group"}

\* the operations that only read the collector
ReadingOperations ==
    {"CopyFromStaging", "InsertVertexPreprocessBeginBarrier",
     "InsertVertexPreprocessFinishBarrier", "AreGeometriesEmpty"}
    \cup Getters \cup CountGetters

\* a step of a reading operation leaves the counters, the buckets and the
\* staging contents as they were, and with them what CopyFromStaging and
\* InsertVertexPreprocessFinishBarrier would record
ReadingChangesNothing ==
    last'.op \in ReadingOperations =>
        /\ SourceState' = SourceState
        /\ CopyFromStaging' = CopyFromStaging
        /\ InsertVertexPreprocessFinishBarrier' = InsertVertexPreprocessFinishBarrier

\* CopyFromStaging called right after CopyFromStaging records and returns the
\* same
SecondCopyTheSame ==
    (last.op = "CopyFromStaging" /\ last'.op = "CopyFromStaging") =>
        /\ last'.cmds = last.cmds
        /\ last'.result = last.result

\* what a call of CopyFromStaging records and returns is what the operation
\* yields in the state it is called in
CopyRecordsCurrentState ==
    last'.op = "CopyFromStaging" =>
        /\ last'.cmds = CopyFromStaging.cmds
        /\ last'.result = CopyFromStaging.ret

\* C32: CopyFromStaging, InsertVertexPreprocessBeginBarrier,
\* InsertVertexPreprocessFinishBarrier and the query operations leave the four
\* counters, every bucket and the staging contents unchanged; CopyFromStaging
\* called twice with no AddPrimitive or Reset in between records the same
\* copies and barriers and returns the same value.
C32_ReadingOperationsChangeNothing ==
    [][ReadingChangesNothing /\ SecondCopyTheSame /\ CopyRecordsCurrentState]_vars

\* CopyFromStaging has been called twice in a row after an accepted primitive
\* with indices and has recorded copies
C32_Witness ==
    /\ last.op = "CopyFromStaging"
    /\ last.prev = "CopyFromStaging"
    /\ last.result
    /\ Len(last.cmds) >= 4
    /\ curIndexCount > 0
    /\ GetAllGeometryCount = 1

\* x rounded up to a multiple of 3 in unbounded arithmetic
ExactAlignUpBy3(x) == ((x + 2) \div 3) * 3

\* C33: with the counters computed modulo the word size, no primitive is
\* accepted unless, in unbounded arithmetic, its aligned vertex offset plus its
\* vertexCount is below the vertex maximum of its class and its aligned index
\* offset plus its indexCount is below MAX_INDEXED_PRIMITIVE_COUNT * 3: a count
\* that makes a counter wrap around is still rejected, whatever the counters
\* are after earlier rejected calls.
C33_WrapAroundRejected ==
    (IsAddPrimitive /\ last.accepted) =>
        /\ ExactAlignUpBy3(last.preVertexCount) + last.vertexCount
               < MaxVertexCount(last.geomFlags)
        /\ ExactAlignUpBy3(last.preIndexCount) + IndexCountOf(last)
               < MAX_INDEXED_PRIMITIVE_COUNT * 3

\* the vertex half and the index half of C33
VertexWrapRejected ==
    (IsAddPrimitive /\ last.accepted) =>
        ExactAlignUpBy3(last.preVertexCount) + last.vertexCount
            < MaxVertexCount(last.geomFlags)

IndexWrapRejected ==
    (IsAddPrimitive /\ last.accepted) =>
        ExactAlignUpBy3(last.preIndexCount) + IndexCountOf(last)
            < MAX_INDEXED_PRIMITIVE_COUNT * 3

\* what the checks of lines 229 and 242 do ensure: the sums computed in the
\* unsigned word are below the limits in every accepted call
WrappedSumsBelowLimits ==
    (IsAddPrimitive /\ last.accepted) =>
        /\ U32(AlignUpBy3(last.preVertexCount) + last.vertexCount)
               < MaxVertexCount(last.geomFlags)
        /\ U32(AlignUpBy3(last.preIndexCount) + IndexCountOf(last))
               < MAX_INDEXED_PRIMITIVE_COUNT * 3
        /\ curVertexCount = U32(AlignUpBy3(last.preVertexCount) + last.vertexCount)
        /\ curIndexCount = U32(AlignUpBy3(last.preIndexCount) + IndexCountOf(last))

\* the arguments the TextureOverrides object was constructed with
Given_ == textureOverrides.given

\* slot i gets the file of the override: overriding is not disabled, a
\* relative path was given and the loader returned a result
OverrideLoaded(i) ==
    /\ ~Given_.disableOverride
    /\ Given_.relativePath # NullPath
    /\ Given_.files[i] # "none"

\* results[ i ] is what the loader returned for the slot's file
IsLoadedResult(i) ==
    /\ textureOverrides.results[i].hasValue
    /\ textureOverrides.results[i].from[1] = Given_.loader
    /\ Len(textureOverrides.loaded[i]) = 1

\* results[ i ] is the application's default data: one mip level of
\* 4 * width * height bytes (a 32-bit unsigned product), R8G8B8A8 in sRGB or
\* UNORM as originalIsSRGB says
IsDefaultResult(i) ==
    /\ textureOverrides.results[i].hasValue
    /\ textureOverrides.results[i].from = <<"defaultData">>
    /\ textureOverrides.results[i].levelCount = 1
    /\ textureOverrides.results[i].levelSizes
           = << (4 * Given_.defaultSize[1] * Given_.defaultSize[2]) % (UINT32_MAX + 1) >>
    /\ textureOverrides.results[i].baseSize = Given_.defaultSize
    /\ textureOverrides.results[i].format
           = IF Given_.originalIsSRGB[i] THEN "R8G8B8A8_SRGB" ELSE "R8G8B8A8_UNORM"

\* every slot holds the loaded override, else the default data, else nothing;
\* the loader is called once for each slot when overriding is enabled and a
\* relative path was given, and never otherwise
SlotsResolved(formatAsStated(_)) ==
    textureOverrides.constructed =>
        \A i \in Slots :
            /\ IF OverrideLoaded(i)
               THEN IsLoadedResult(i) /\ formatAsStated(i)
               ELSE IF Given_.defaultData[i]
               THEN IsDefaultResult(i)
               ELSE ~textureOverrides.results[i].hasValue
            /\ Given_.disableOverride => textureOverrides.loaded[i] = <<>>
            /\ (~Given_.disableOverride /\ Given_.relativePath # NullPath)
                   => Len(textureOverrides.loaded[i]) = 1

\* sRGB and UNORM formats that are each other's variant and are no case of
\* ToUnorm and ToSRGB
OtherPairs == { <<"ASTC_4x4_SRGB_BLOCK", "ASTC_4x4_UNORM_BLOCK">> }

\* the loaded format of slot i is forced to its sRGB variant when the slot is
\* marked overridden-sRGB, and to its UNORM variant otherwise
FormatForced(i) ==
    \E p \in FormatPairs \cup OtherPairs :
        /\ Given_.files[i] \in {p[1], p[2]}
        /\ textureOverrides.results[i].format
               = IF Given_.overridenIsSRGB[i] THEN p[1] ELSE p[2]

\* the same for the formats of the twelve pairs of ToUnorm and ToSRGB; any
\* other format is left as loaded
FormatForcedOrLeft(i) ==
    IF \E p \in FormatPairs : Given_.files[i] \in {p[1], p[2]}
    THEN \E p \in FormatPairs :
             /\ Given_.files[i] \in {p[1], p[2]}
             /\ textureOverrides.results[i].format
                    = IF Given_.overridenIsSRGB[i] THEN p[1] ELSE p[2]
    ELSE textureOverrides.results[i].format = Given_.files[i]

\* ToSRGB and ToUnorm on every format of the pairs
PairsConverted ==
    \A p \in FormatPairs :
        /\ ToSRGB(p[2]) = p[1] /\ ToSRGB(p[1]) = p[1]
        /\ ToUnorm(p[1]) = p[2] /\ ToUnorm(p[2]) = p[2]

\* C34: texture override resolution yields, for each slot independently, the
\* loaded override if overriding is not disabled, a relative path was given
\* and the loader returned a result, with its format forced to the sRGB
\* variant when the slot is marked overridden-sRGB and to the UNORM variant
\* otherwise; else the default data of the slot, if provided; else no result.
\* A loaded override is never replaced by default data, and with overriding
\* disabled the loader is never called.
C34_TextureOverridesResolved == SlotsResolved(FormatForced)

\* C34 as amended: the format of a loaded override is replaced by its sRGB or
\* UNORM counterpart only when it is one of the twelve pairs of ToSRGB and
\* ToUnorm; any other format is left as the loader returned it.
C34_TextureOverridesResolvedOrLeft ==
    SlotsResolved(FormatForcedOrLeft) /\ PairsConverted

\* slot 1 holds a loaded file whose format is outside the pairs although
\* default data was provided, slot 2 holds default data, slot 3 a loaded file
\* converted to sRGB
C34_Witness ==
    /\ textureOverrides.constructed
    /\ Given_.files[1] = "ASTC_4x4_UNORM_BLOCK" /\ Given_.overridenIsSRGB[1]
    /\ Given_.defaultData[1]
    /\ \A i \in Slots : textureOverrides.results[i].hasValue
    /\ textureOverrides.results[1].format = "ASTC_4x4_UNORM_BLOCK"
    /\ textureOverrides.results[2].from = <<"defaultData">>
    /\ textureOverrides.results[2].format = "R8G8B8A8_SRGB"
    /\ textureOverrides.results[2].levelSizes = <<24>>
    /\ textureOverrides.results[3].format = "BC7_SRGB_BLOCK"
    /\ Given_.files[3] = "BC7_UNORM_BLOCK"

====
